---- MODULE Spec2Model ----
(***************************************************************************)
(* Model of the pain-point analysis tool: the persona identity resolver    *)
(* (utils/personas), the transcript extraction step (extract-painpoints    *)
(* route) and the priority-matrix declustering (analyze-painpoints route). *)
(*                                                                         *)
(* Representation.  A persona name is the sequence of its space-separated  *)
(* tokens, a token is a sequence of one-character strings, so that         *)
(* toLowerCase, split(' ') and the initials are computed and not assumed.  *)
(* Names are joined by single spaces with no leading or trailing space.    *)
(* An absent optional string and the empty string are both "" (both are    *)
(* falsy for ||); an avatar carries the flag has, because an avatar object *)
(* without a color is truthy.  Similarities are in hundredths.             *)
(* Matrix coordinates are in thousandths (2.51 is 2510); a random angle is *)
(* drawn as the displacement it yields, a random edge offset as a number   *)
(* of thousandths below 200.                                               *)
(***************************************************************************)
EXTENDS Integers, Sequences, FiniteSets, TLC

VARIABLES
    roster,      \* the persona roster (Persona[])
    inRoster,    \* mergePersonasWithMapping: the `existing` argument of the last call
    inBatch,     \* mergePersonasWithMapping: the `incoming` argument of the last call
    idMapping,   \* mergePersonasWithMapping: the idMapping returned by the last call
    calls,       \* number of operations applied so far
    lastOp,      \* the operation that produced the current state
    llmResponse, \* extract-painpoints: what the language model call delivered
    extraction,  \* extract-painpoints: the outcome of the request
    inItems,     \* spreadPriorityMatrix: the items argument of the last call
    argItems,    \* spreadPriorityMatrix: the caller's items array after the call
    outItems,    \* spreadPriorityMatrix: the array the last call returned
    afterGroups, \* spreadPriorityMatrix: processed when the loop over the groups ended
    painPointsByStage, \* Home: the pain points of each stage
    uploads,     \* Home: the handleFileUpload calls that await their response
    mergeTarget, \* Home: the persona merge mode was started on, if it is on
    analysis,    \* Home: the analysis shown, if any
    isLoaded,    \* Home: whether the load effect has run
    localStorage, \* the browser's storage under the keys of the application
    unattributed, \* ids of the uploaded pain points of batches of several
                 \* personas whose personaIndex named no persona
    selectedPersonaIds, \* Home: the ids the persona filter is set to
    lastAnalysisHash,   \* Home: the hash of the pain points last analysed, if any
    analyses     \* Home: the analyzePainPoints calls that await their response

resolverVars == <<roster, inRoster, inBatch, idMapping>>
extractVars == <<llmResponse, extraction>>
spreadVars == <<inItems, argItems, outItems, afterGroups>>
appVars == <<painPointsByStage, uploads, mergeTarget, analysis, isLoaded, localStorage,
             unattributed, selectedPersonaIds, lastAnalysisHash, analyses>>

vars == <<roster, inRoster, inBatch, idMapping, calls, lastOp, llmResponse, extraction,
         inItems, argItems, outItems, afterGroups, painPointsByStage, uploads, mergeTarget, analysis,
         isLoaded, localStorage, unattributed, selectedPersonaIds, lastAnalysisHash,
         analyses>>

----------------------------------------------------------------------------
(* Bounds *)

MaxBatch == 2        \* candidates per batch
MaxInitRoster == 2   \* personas in the roster the first call receives
MaxCalls == 2        \* calls in a row that are counted; later ones leave the count
MaxRawPersonas == 2  \* personas in one language-model response
MaxRawPainPoints == 2 \* pain points in one language-model response
MaxOps == 4          \* resolver calls and deletions applied to the application roster
MaxColorRoster == 10 \* personas in a roster handed to ensurePersonaColors
MaxLongRoster == 22  \* personas in a roster larger than the palette
MaxItems == 3        \* items in a priority matrix handed to spreadPriorityMatrix
MaxUploads == 2      \* handleFileUpload calls that await their response at a time
MaxHomeOps == 3      \* handlers run on the page in one run
MaxAnalyses == 1     \* analyzePainPoints calls that await their response at a time

----------------------------------------------------------------------------
(* Generic helpers *)

Range(s) == {s[i] : i \in DOMAIN s}

\* [...].filter((x, index, arr) => arr.indexOf(x) === index)
FilterFirstOccurrence(arr) ==
    LET keep == {i \in DOMAIN arr : \A j \in 1..(i - 1) : arr[j] # arr[i]}
        Kept(i) == Cardinality({j \in keep : j <= i})
    IN  [n \in 1..Cardinality(keep) |-> arr[CHOOSE i \in keep : Kept(i) = n]]

EmptyMapping == [x \in {} |-> ""]

\* idMapping[key] = value on a Record<string, string>
SetKey(mapping, key, value) ==
    [x \in (DOMAIN mapping) \cup {key} |-> IF x = key THEN value ELSE mapping[x]]

----------------------------------------------------------------------------
(* Characters and names *)

toLowerCaseChar(ch) ==
    CASE ch = "S" -> "s" [] ch = "A" -> "a"
      [] ch = "J" -> "j" [] ch = "O" -> "o"
      [] ch = "L" -> "l" [] ch = "E" -> "e"
      [] ch = "M" -> "m" [] ch = "B" -> "b"
      [] OTHER -> ch

toUpperCaseChar(ch) ==
    CASE ch = "s" -> "S" [] ch = "a" -> "A"
      [] ch = "j" -> "J" [] ch = "o" -> "O"
      [] ch = "l" -> "L" [] ch = "e" -> "E"
      [] ch = "m" -> "M" [] ch = "b" -> "B"
      [] OTHER -> ch

toLowerCase(name) ==
    [t \in DOMAIN name |-> [k \in DOMAIN name[t] |-> toLowerCaseChar(name[t][k])]]

PERSONA_COLORS ==
    << "#3b82f6", "#10b981", "#f59e0b", "#ef4444", "#8b5cf6",
       "#ec4899", "#14b8a6", "#f97316", "#06b6d4", "#84cc16" >>

PaletteSize == Len(PERSONA_COLORS)

NoAvatar == [has |-> FALSE, color |-> "", initials |-> <<>>]

----------------------------------------------------------------------------
(* utils/personas *)

ExactNameSimilarity == 95
FirstLastSimilarity == 90
MergeThreshold == 80

calculatePersonaSimilarityFirstOnly(persona1, persona2) ==
    LET name1 == toLowerCase(persona1.name)
        name2 == toLowerCase(persona2.name)
    IN  IF name1 = name2 THEN ExactNameSimilarity
        ELSE IF /\ Len(name1) >= 2
                /\ Len(name2) >= 2
                /\ name1[1] = name2[1]
             THEN FirstLastSimilarity
             ELSE 0

calculatePersonaSimilarityFlat(persona1, persona2) ==
    LET name1 == toLowerCase(persona1.name)
        name2 == toLowerCase(persona2.name)
    IN  IF name1 = name2 THEN FirstLastSimilarity
        ELSE IF /\ Len(name1) >= 2
                /\ Len(name2) >= 2
                /\ name1[1] = name2[1]
                /\ name1[Len(name1)] = name2[Len(name2)]
             THEN FirstLastSimilarity
             ELSE 0

calculatePersonaSimilarity(persona1, persona2) ==
    LET name1 == toLowerCase(persona1.name)
        name2 == toLowerCase(persona2.name)
    IN  IF name1 = name2 THEN ExactNameSimilarity
        ELSE IF /\ Len(name1) >= 2
                /\ Len(name2) >= 2
                /\ name1[1] = name2[1]
                /\ name1[Len(name1)] = name2[Len(name2)]
             THEN FirstLastSimilarity
             ELSE 0

\* a || b on strings and sequences: the empty value is falsy
OrElse(a, b, empty) == IF a # empty THEN a ELSE b

\* lines 45-67 with the existing value taken first
mergeTwoPersonasExistingFirst(existing, incoming) ==
    [ id          |-> existing.id,
      name        |-> OrElse(existing.name, incoming.name, <<>>),
      role        |-> OrElse(existing.role, incoming.role, ""),
      description |-> OrElse(existing.description, incoming.description, ""),
      goals       |-> FilterFirstOccurrence(existing.goals \o incoming.goals),
      painPoints  |-> FilterFirstOccurrence(existing.painPoints \o incoming.painPoints),
      demographics |->
        [ age         |-> OrElse(existing.demographics.age, incoming.demographics.age, ""),
          experience  |-> OrElse(existing.demographics.experience,
                                 incoming.demographics.experience, ""),
          department  |-> OrElse(existing.demographics.department,
                                 incoming.demographics.department, ""),
          companySize |-> OrElse(existing.demographics.companySize,
                                 incoming.demographics.companySize, "") ],
      avatar      |-> IF existing.avatar.has THEN existing.avatar ELSE incoming.avatar ]

mergeTwoPersonas(existing, incoming) ==
    [ id          |-> existing.id,
      name        |-> OrElse(incoming.name, existing.name, <<>>),
      role        |-> OrElse(incoming.role, existing.role, ""),
      description |-> OrElse(incoming.description, existing.description, ""),
      goals       |-> FilterFirstOccurrence(existing.goals \o incoming.goals),
      painPoints  |-> FilterFirstOccurrence(existing.painPoints \o incoming.painPoints),
      demographics |->
        [ age         |-> OrElse(incoming.demographics.age, existing.demographics.age, ""),
          experience  |-> OrElse(incoming.demographics.experience,
                                 existing.demographics.experience, ""),
          department  |-> OrElse(incoming.demographics.department,
                                 existing.demographics.department, ""),
          companySize |-> OrElse(incoming.demographics.companySize,
                                 existing.demographics.companySize, "") ],
      avatar      |-> IF incoming.avatar.has THEN incoming.avatar ELSE existing.avatar ]

NoId == ""

\* The uuids Math.random produces are the stream uuidStream; the while loop
\* skips the ones already taken.  NoId: the stream ended before the loop did.
generateUniquePersonaId(existingPersonas, uuidStream) ==
    LET existingIds == {existingPersonas[i].id : i \in DOMAIN existingPersonas}
        free == {k \in DOMAIN uuidStream : uuidStream[k] \notin existingIds}
    IN  IF free = {} THEN NoId
        ELSE uuidStream[CHOOSE k \in free : \A m \in free : k <= m]

UsedColors(existingPersonas) ==
    {existingPersonas[i].avatar.color : i \in DOMAIN existingPersonas} \ {""}

\* personaIndex is zero-based
assignUniqueColor(existingPersonas, personaIndex) ==
    LET usedColors == UsedColors(existingPersonas)
        unused == {k \in DOMAIN PERSONA_COLORS : PERSONA_COLORS[k] \notin usedColors}
    IN  IF unused # {}
        THEN PERSONA_COLORS[CHOOSE k \in unused : \A m \in unused : k <= m]
        ELSE PERSONA_COLORS[(personaIndex % PaletteSize) + 1]

SubSeqTo(s, n) == IF Len(s) <= n THEN s ELSE SubSeq(s, 1, n)

toUpperCaseSeq(chars) == [k \in DOMAIN chars |-> toUpperCaseChar(chars[k])]

generateInitials(name) ==
    IF Len(name) > 1
    THEN toUpperCaseSeq(<<name[1][1], name[Len(name)][1]>>)
    ELSE IF Len(name) = 1 THEN toUpperCaseSeq(SubSeqTo(name[1], 2))
    ELSE <<>>

ensurePersonaAvatarAlways(persona, existingPersonas, index) ==
    [persona EXCEPT !.avatar =
        [ has      |-> TRUE,
          color    |-> assignUniqueColor(existingPersonas, index),
          initials |-> generateInitials(persona.name) ]]

ensurePersonaAvatar(persona, existingPersonas, index) ==
    IF ~persona.avatar.has \/ persona.avatar.color = ""
    THEN [persona EXCEPT !.avatar =
            [ has      |-> TRUE,
              color    |-> assignUniqueColor(existingPersonas, index),
              initials |-> generateInitials(persona.name) ]]
    ELSE IF persona.avatar.initials = <<>>
    THEN [persona EXCEPT !.avatar.initials = generateInitials(persona.name)]
    ELSE persona

IdsOf(personas) == {personas[i].id : i \in DOMAIN personas}

\* lines 167-175: index of the best match in merged, 0 for none
RECURSIVE BestMatchFrom(_, _, _, _)
BestMatchFrom(merged, incomingPersona, i, best) ==
    IF i > Len(merged) THEN best
    ELSE LET similarity == calculatePersonaSimilarity(merged[i], incomingPersona)
         IN  IF /\ similarity > MergeThreshold
                /\ \/ best = 0
                   \/ similarity >
                        calculatePersonaSimilarity(merged[best], incomingPersona)
             THEN BestMatchFrom(merged, incomingPersona, i + 1, i)
             ELSE BestMatchFrom(merged, incomingPersona, i + 1, best)

BestMatchIndex(merged, incomingPersona) == BestMatchFrom(merged, incomingPersona, 1, 0)

\* lines 177-198: one iteration of the loop over incoming
MergeOneKeepIncomingId(acc, incomingPersona, uuidStream) ==
    LET merged == acc.merged
        best == BestMatchIndex(merged, incomingPersona)
    IN  IF best # 0
        THEN [ merged    |-> [merged EXCEPT ![best] =
                                mergeTwoPersonas(merged[best], incomingPersona)],
               idMapping |-> SetKey(acc.idMapping, incomingPersona.id, incomingPersona.id) ]
        ELSE IF incomingPersona.id \notin IdsOf(merged)
        THEN [ merged    |-> Append(merged, incomingPersona),
               idMapping |-> SetKey(acc.idMapping, incomingPersona.id, incomingPersona.id) ]
        ELSE LET newId == generateUniquePersonaId(merged, uuidStream)
             IN  [ merged    |-> Append(merged, [incomingPersona EXCEPT !.id = newId]),
                   idMapping |-> SetKey(acc.idMapping, incomingPersona.id, newId) ]

\* lines 177-198 with the candidate always pushed under the id it came with
MergeOneKeepOwnId(acc, incomingPersona, uuidStream) ==
    LET merged == acc.merged
        best == BestMatchIndex(merged, incomingPersona)
    IN  IF best # 0
        THEN [ merged    |-> [merged EXCEPT ![best] =
                                mergeTwoPersonas(merged[best], incomingPersona)],
               idMapping |-> SetKey(acc.idMapping, incomingPersona.id, merged[best].id) ]
        ELSE [ merged    |-> Append(merged, incomingPersona),
               idMapping |-> SetKey(acc.idMapping, incomingPersona.id, incomingPersona.id) ]

MergeOne(acc, incomingPersona, uuidStream) ==
    LET merged == acc.merged
        best == BestMatchIndex(merged, incomingPersona)
    IN  IF best # 0
        THEN [ merged    |-> [merged EXCEPT ![best] =
                                mergeTwoPersonas(merged[best], incomingPersona)],
               idMapping |-> SetKey(acc.idMapping, incomingPersona.id, merged[best].id) ]
        ELSE IF incomingPersona.id \notin IdsOf(merged)
        THEN [ merged    |-> Append(merged, incomingPersona),
               idMapping |-> SetKey(acc.idMapping, incomingPersona.id, incomingPersona.id) ]
        ELSE LET newId == generateUniquePersonaId(merged, uuidStream)
             IN  [ merged    |-> Append(merged, [incomingPersona EXCEPT !.id = newId]),
                   idMapping |-> SetKey(acc.idMapping, incomingPersona.id, newId) ]

\* lines 163-199
RECURSIVE MergeFrom(_, _, _, _)
MergeFrom(acc, incoming, k, uuidStream) ==
    IF k > Len(incoming) THEN acc
    ELSE MergeFrom(MergeOne(acc, incoming[k], uuidStream), incoming, k + 1, uuidStream)

\* lines 163-199 with the best match looked for in existing instead of merged
RECURSIVE MergeAgainstExistingFrom(_, _, _, _, _)
MergeAgainstExistingFrom(acc, existing, incoming, k, uuidStream) ==
    IF k > Len(incoming) THEN acc
    ELSE LET merged == acc.merged
             incomingPersona == incoming[k]
             step ==
                IF BestMatchIndex(existing, incomingPersona) # 0
                THEN MergeOne(acc, incomingPersona, uuidStream)
                ELSE IF incomingPersona.id \notin IdsOf(merged)
                THEN [ merged    |-> Append(merged, incomingPersona),
                       idMapping |-> SetKey(acc.idMapping, incomingPersona.id,
                                            incomingPersona.id) ]
                ELSE LET newId == generateUniquePersonaId(merged, uuidStream)
                     IN  [ merged    |-> Append(merged,
                                            [incomingPersona EXCEPT !.id = newId]),
                           idMapping |-> SetKey(acc.idMapping, incomingPersona.id,
                                                newId) ]
         IN  MergeAgainstExistingFrom(step, existing, incoming, k + 1, uuidStream)

MergeLoopAgainstExisting(existing, incoming, uuidStream) ==
    MergeAgainstExistingFrom([merged |-> existing, idMapping |-> EmptyMapping],
                             existing, incoming, 1, uuidStream)

\* lines 163-199 with the candidates taken last to first
MergeLoopReversed(existing, incoming, uuidStream) ==
    MergeFrom([merged |-> existing, idMapping |-> EmptyMapping],
              [k \in DOMAIN incoming |-> incoming[Len(incoming) + 1 - k]], 1, uuidStream)

MergeLoop(existing, incoming, uuidStream) ==
    MergeFrom([merged |-> existing, idMapping |-> EmptyMapping], incoming, 1, uuidStream)

\* lines 201-211, without the seenIds test
RECURSIVE FinalPassNoDedupFrom(_, _, _)
FinalPassNoDedupFrom(uniquePersonas, merged, i) ==
    IF i > Len(merged) THEN uniquePersonas
    ELSE FinalPassNoDedupFrom(
            Append(uniquePersonas, ensurePersonaAvatar(merged[i], uniquePersonas, i - 1)),
            merged, i + 1)

FinalPassNoDedup(merged) == FinalPassNoDedupFrom(<<>>, merged, 1)

\* lines 201-211: seenIds is the set of ids of uniquePersonas
RECURSIVE FinalPassFrom(_, _, _)
FinalPassFrom(uniquePersonas, merged, i) ==
    IF i > Len(merged) THEN uniquePersonas
    ELSE IF merged[i].id \notin IdsOf(uniquePersonas)
    THEN FinalPassFrom(
            Append(uniquePersonas, ensurePersonaAvatar(merged[i], uniquePersonas, i - 1)),
            merged, i + 1)
    ELSE FinalPassFrom(uniquePersonas, merged, i + 1)

FinalPass(merged) == FinalPassFrom(<<>>, merged, 1)

mergePersonasWithMapping(existing, incoming, uuidStream) ==
    LET loop == MergeLoop(existing, incoming, uuidStream)
    IN  [personas |-> FinalPass(loop.merged), idMapping |-> loop.idMapping]

\* lines 305-311 with the escape at four times the palette
RECURSIVE AdvanceColorIndexLateEscape(_, _)
AdvanceColorIndexLateEscape(colorIndex, usedColors) ==
    IF PERSONA_COLORS[(colorIndex % PaletteSize) + 1] \in usedColors
    THEN IF colorIndex + 1 >= PaletteSize * 4
         THEN colorIndex + 1
         ELSE AdvanceColorIndexLateEscape(colorIndex + 1, usedColors)
    ELSE colorIndex

\* lines 305-311: the cursor after the while loop
RECURSIVE AdvanceColorIndex(_, _)
AdvanceColorIndex(colorIndex, usedColors) ==
    IF PERSONA_COLORS[(colorIndex % PaletteSize) + 1] \in usedColors
    THEN IF colorIndex + 1 >= PaletteSize * 2
         THEN colorIndex + 1
         ELSE AdvanceColorIndex(colorIndex + 1, usedColors)
    ELSE colorIndex

\* lines 296-325 with a persona keeping any color it has
ColorStepKeepOwn(acc, persona, allSameColor) ==
    IF persona.avatar.color # "" /\ ~allSameColor
    THEN [ colorIndex |-> acc.colorIndex,
           usedColors |-> acc.usedColors \cup {persona.avatar.color},
           result     |-> Append(acc.result, persona) ]
    ELSE LET colorIndex == AdvanceColorIndex(acc.colorIndex, acc.usedColors)
             newColor == PERSONA_COLORS[(colorIndex % PaletteSize) + 1]
         IN  [ colorIndex |-> colorIndex + 1,
               usedColors |-> acc.usedColors \cup {newColor},
               result     |-> Append(acc.result,
                    [persona EXCEPT !.avatar =
                        [ has      |-> TRUE,
                          color    |-> newColor,
                          initials |-> OrElse(persona.avatar.initials,
                                              generateInitials(persona.name), <<>>) ]]) ]

\* lines 296-325: the callback of personas.map, with the state it closes over
ColorStep(acc, persona, allSameColor) ==
    IF /\ persona.avatar.color # ""
       /\ ~allSameColor
       /\ persona.avatar.color \notin acc.usedColors
    THEN [ colorIndex |-> acc.colorIndex,
           usedColors |-> acc.usedColors \cup {persona.avatar.color},
           result     |-> Append(acc.result, persona) ]
    ELSE LET colorIndex == AdvanceColorIndex(acc.colorIndex, acc.usedColors)
             newColor == PERSONA_COLORS[(colorIndex % PaletteSize) + 1]
         IN  [ colorIndex |-> colorIndex + 1,
               usedColors |-> acc.usedColors \cup {newColor},
               result     |-> Append(acc.result,
                    [persona EXCEPT !.avatar =
                        [ has      |-> TRUE,
                          color    |-> newColor,
                          initials |-> OrElse(persona.avatar.initials,
                                              generateInitials(persona.name), <<>>) ]]) ]

\* lines 285-286
AllSameColor(personas) ==
    LET colors == SelectSeq([i \in DOMAIN personas |-> personas[i].avatar.color],
                            LAMBDA c : c # "")
    IN  Len(colors) > 1 /\ \A i \in DOMAIN colors : colors[i] = colors[1]

\* personas.map over the personas from position i on
RECURSIVE ColorMap(_, _, _, _)
ColorMap(acc, personas, i, allSameColor) ==
    IF i > Len(personas) THEN acc
    ELSE ColorMap(ColorStep(acc, personas[i], allSameColor), personas, i + 1, allSameColor)

ensurePersonaColors(personas) ==
    ColorMap([colorIndex |-> 0, usedColors |-> {}, result |-> <<>>],
             personas, 1, AllSameColor(personas)).result

\* lines 242-265: seenIds is the set of ids of uniquePersonas
RECURSIVE UniqueIdsFrom(_, _, _, _)
UniqueIdsFrom(uniquePersonas, personas, i, uuidStream) ==
    IF i > Len(personas) THEN uniquePersonas
    ELSE LET persona == personas[i]
             kept == IF persona.id \notin IdsOf(uniquePersonas) THEN persona
                     ELSE [persona EXCEPT
                             !.id = generateUniquePersonaId(uniquePersonas, uuidStream)]
         IN  UniqueIdsFrom(
                Append(uniquePersonas, ensurePersonaAvatar(kept, uniquePersonas, i - 1)),
                personas, i + 1, uuidStream)

ensureUniquePersonaIds(personas, uuidStream) == UniqueIdsFrom(<<>>, personas, 1, uuidStream)

getNextAvailableColor(existingPersonas) ==
    assignUniqueColor(existingPersonas, Len(existingPersonas))

\* lines 338-360
manualMergePersonas(primary, secondary) ==
    [ id          |-> primary.id,
      name        |-> OrElse(primary.name, secondary.name, <<>>),
      role        |-> OrElse(primary.role, secondary.role, ""),
      description |-> OrElse(primary.description, secondary.description, ""),
      goals       |-> FilterFirstOccurrence(primary.goals \o secondary.goals),
      painPoints  |-> FilterFirstOccurrence(primary.painPoints \o secondary.painPoints),
      demographics |->
        [ age         |-> OrElse(primary.demographics.age, secondary.demographics.age, ""),
          experience  |-> OrElse(primary.demographics.experience,
                                 secondary.demographics.experience, ""),
          department  |-> OrElse(primary.demographics.department,
                                 secondary.demographics.department, ""),
          companySize |-> OrElse(primary.demographics.companySize,
                                 secondary.demographics.companySize, "") ],
      avatar      |-> IF primary.avatar.has THEN primary.avatar ELSE secondary.avatar ]

----------------------------------------------------------------------------
(* extract-painpoints route: extractPainPointsAndPersonasFromTranscript *)

stages ==
    << "requirements", "alignment", "creation", "review", "presentation",
       "negotiation", "signature", "handoff", "tracking", "retrospective" >>

DigitChar(n) ==
    CASE n = 1 -> "1" [] n = 2 -> "2" [] n = 3 -> "3" [] n = 4 -> "4"
      [] n = 5 -> "5" [] n = 6 -> "6" [] n = 7 -> "7" [] n = 8 -> "8"
      [] OTHER -> "9"

\* `User ${index + 1}`
DefaultPersonaName(index) == << <<"U", "s", "e", "r">>, <<DigitChar(index + 1)>> >>

\* name.split(' ').map(n => n[0]).join('').toUpperCase().substring(0, 2)
ExtractInitials(name) ==
    toUpperCaseSeq(SubSeqTo([t \in DOMAIN name |-> name[t][1]], 2))

\* lines 317-337; index is zero-based, uuid is what generateUUID() returned
ExtractPersona(p, index, uuid) ==
    LET name == OrElse(p.name, DefaultPersonaName(index), <<>>)
    IN  [ id           |-> uuid,
          name         |-> name,
          role         |-> OrElse(p.role, "Stakeholder", ""),
          description  |-> p.description,
          goals        |-> p.goals,
          demographics |-> p.demographics,
          avatar       |-> [has |-> TRUE, color |-> "", initials |-> ExtractInitials(name)],
          painPoints   |-> <<>> ]

ExtractPersonas(personasArray, uuids) ==
    [k \in DOMAIN personasArray |-> ExtractPersona(personasArray[k], k - 1, uuids[k])]

\* A personaIndex of the response: absent (undefined), null, or a number.
AbsentIndex == [kind |-> "absent", value |-> 0]
NullIndex == [kind |-> "null", value |-> 0]
NumberIndex(n) == [kind |-> "number", value |-> n]

TypeError == "TypeError"

\* lines 361-363:
\*   (pp.personaIndex !== undefined && pp.personaIndex < personas.length)
\*       ? personas[pp.personaIndex].id : undefined
\* null compares as 0; personas[null] and personas[-1] are undefined, and
\* reading .id of undefined throws.  "" stands for undefined.
PersonaIdOfIndex(personaIndex, personas) ==
    IF personaIndex.kind = "absent" THEN ""
    ELSE LET asNumber == IF personaIndex.kind = "null" THEN 0 ELSE personaIndex.value
         IN  IF ~(asNumber < Len(personas)) THEN ""
             ELSE IF personaIndex.kind = "number" /\ personaIndex.value >= 0
                  THEN personas[personaIndex.value + 1].id
                  ELSE TypeError

\* lines 353-364; index is zero-based, stamp stands for Date.now() and the
\* random suffix of the id
ExtractPainPoint(pp, index, stamp, personas) ==
    [ id       |-> <<stamp, index>>,
      title    |-> OrElse(pp.title, "Untitled Pain Point", ""),
      details  |-> OrElse(pp.details, pp.description, ""),
      severity |-> OrElse(pp.severity, "medium", ""),
      stage    |-> IF pp.stage # "" /\ pp.stage \in Range(stages)
                   THEN pp.stage ELSE "requirements",
      source   |-> OrElse(pp.source, "Transcript", ""),
      personaId |-> PersonaIdOfIndex(pp.personaIndex, personas) ]

\* lines 366-377 with the first persona taken whenever there is one
FirstPersonaFallback(painPoints, personas) ==
    IF Len(personas) >= 1 /\ \E k \in DOMAIN painPoints : painPoints[k].personaId = ""
    THEN [k \in DOMAIN painPoints |->
            [painPoints[k] EXCEPT !.personaId = OrElse(@, personas[1].id, "")]]
    ELSE painPoints

\* lines 366-377
SinglePersonaFallback(painPoints, personas) ==
    IF Len(personas) = 1 /\ \E k \in DOMAIN painPoints : painPoints[k].personaId = ""
    THEN [k \in DOMAIN painPoints |->
            [painPoints[k] EXCEPT !.personaId = OrElse(@, personas[1].id, "")]]
    ELSE painPoints

Failed == [status |-> "error", painPoints |-> <<>>, personas |-> <<>>]

\* lines 250-295: the response was not JSON; bullet lines become pain points
FallbackPainPoint(pp, index, stamp) ==
    [ id       |-> <<stamp, index>>,
      title    |-> pp.title,
      details  |-> pp.title,
      severity |-> OrElse(pp.severity, "medium", ""),
      stage    |-> IF pp.stage \in Range(stages) THEN pp.stage ELSE "requirements",
      source   |-> "Transcript",
      personaId |-> "" ]

\* POST and extractPainPointsAndPersonasFromTranscript: an exception anywhere
\* in the function becomes the 500 response of POST (lines 21-26).
extractPainPointsAndPersonasFromTranscript(response, uuids, stamp) ==
    IF response.kind = "apiError" THEN Failed
    ELSE IF response.kind = "unparsable"
    THEN IF response.painPoints = <<>> THEN Failed
         ELSE [ status     |-> "ok",
                painPoints |-> [k \in DOMAIN response.painPoints |->
                                  FallbackPainPoint(response.painPoints[k], k - 1, stamp)],
                personas   |-> <<>> ]
    ELSE LET personas == ExtractPersonas(response.personas, uuids)
             indexed == [k \in DOMAIN response.painPoints |->
                           ExtractPainPoint(response.painPoints[k], k - 1, stamp, personas)]
         IN  IF \E k \in DOMAIN indexed : indexed[k].personaId = TypeError
             THEN Failed
             ELSE [ status     |-> "ok",
                    painPoints |-> SinglePersonaFallback(indexed, personas),
                    personas   |-> personas ]

----------------------------------------------------------------------------
(* analyze-painpoints route: spreadPriorityMatrix *)

LowerBound == 1000   \* the 1 of Math.max(1, ...)
UpperBound == 5000   \* the 5 of Math.min(5, ...)

threshold == 300

offset == threshold \div 2

edgeBuffer == 150

EdgeRange == 200     \* Math.random() * 0.2 lies in [0, 0.2)

GroupLabels == <<"immediate", "high", "medium", "low">>

Min(a, b) == IF a < b THEN a ELSE b

Max(a, b) == IF a > b THEN a ELSE b

\* processed.filter(p => p.priority === label), as positions in processed
GroupOf(items, label) ==
    LET S == {i \in DOMAIN items : items[i].priority = label}
    IN  [n \in 1..Cardinality(S) |->
            CHOOSE i \in S : Cardinality({j \in S : j <= i}) = n]

\* the items of the four groups, group after group
GroupedItems(items) ==
    LET order == GroupOf(items, GroupLabels[1]) \o GroupOf(items, GroupLabels[2])
                    \o GroupOf(items, GroupLabels[3]) \o GroupOf(items, GroupLabels[4])
    IN  [k \in DOMAIN order |-> items[order[k]]]

\* const processed = [...items]: the same item objects in the same order
processed(items) == items

\* the (item1, item2) positions the two nested loops visit in a group, in
\* the order they visit them
PairsOfGroup(groupItems) ==
    LET n == Len(groupItems)
        S == {p \in (1..n) \X (1..n) : p[1] < p[2]}
        Before(p, q) == p[1] < q[1] \/ (p[1] = q[1] /\ p[2] <= q[2])
    IN  [k \in 1..Cardinality(S) |->
            LET p == CHOOSE p \in S : Cardinality({q \in S : Before(q, p)}) = k
            IN  <<groupItems[p[1]], groupItems[p[2]]>>]

\* Object.entries(groups).forEach: the groups in the order of the literal
PairsOf(items) ==
    PairsOfGroup(GroupOf(items, GroupLabels[1]))
        \o PairsOfGroup(GroupOf(items, GroupLabels[2]))
        \o PairsOfGroup(GroupOf(items, GroupLabels[3]))
        \o PairsOfGroup(GroupOf(items, GroupLabels[4]))

\* the square of distance
DistanceSquared(item1, item2) ==
    (item1.impact - item2.impact) * (item1.impact - item2.impact)
        + (item1.effort - item2.effort) * (item1.effort - item2.effort)

\* distance < threshold, both sides squared
TooClose(item1, item2) == DistanceSquared(item1, item2) < threshold * threshold

\* <<Math.sin(angle) * offset, Math.cos(angle) * offset>> for the angles
\* 0, pi/2, 5pi/4 and the angle of sine -3/5 and cosine 4/5
AngleOffsets ==
    { <<0, offset>>, <<offset, 0>>, <<-106, -106>>,
      <<-(3 * offset) \div 5, (4 * offset) \div 5>> }

Clamp(v) == Max(LowerBound, Min(UpperBound, v))

Displace(item2, angleOffset) ==
    [item2 EXCEPT !.impact = Clamp(@ + angleOffset[1]),
                  !.effort = Clamp(@ + angleOffset[2])]

\* one iteration of the inner loop with item1 adjusted instead of item2
PairStepMoveFirst(items, pair) ==
    IF TooClose(items[pair[1]], items[pair[2]])
    THEN {[items EXCEPT ![pair[1]] = Displace(@, a)] : a \in AngleOffsets}
    ELSE {items}

\* one iteration of the inner loop: every array it can leave behind
PairStep(items, pair) ==
    IF TooClose(items[pair[1]], items[pair[2]])
    THEN {[items EXCEPT ![pair[2]] = Displace(@, a)] : a \in AngleOffsets}
    ELSE {items}

RECURSIVE PairPass(_, _, _)
PairPass(arrays, pairs, k) ==
    IF k > Len(pairs) THEN arrays
    ELSE PairPass(UNION {PairStep(items, pairs[k]) : items \in arrays}, pairs, k + 1)

\* Math.random() * 0.2: the least value and the greatest one
EdgeDraws == {0, EdgeRange - 1}

PullFromLowerEdge(v) ==
    IF v < LowerBound + edgeBuffer
    THEN {LowerBound + edgeBuffer + r : r \in EdgeDraws}
    ELSE {v}

\* line 314 with the random part added instead of subtracted
PullFromUpperEdgeOutwards(v) ==
    IF v > UpperBound - edgeBuffer
    THEN {UpperBound - edgeBuffer + r : r \in EdgeDraws}
    ELSE {v}

PullFromUpperEdge(v) ==
    IF v > UpperBound - edgeBuffer
    THEN {UpperBound - edgeBuffer - r : r \in EdgeDraws}
    ELSE {v}

EdgeCorrected(v) == UNION {PullFromUpperEdge(w) : w \in PullFromLowerEdge(v)}

\* Math.round(v * 10) / 10 without the rounding
KeepAllDigits(v) == v

\* Math.round(v * 10) / 10; Math.round rounds a half upwards
RoundToTenth(v) == ((v + 50) \div 100) * 100

\* the body of the final forEach for one item: every item it can leave behind
EdgeStep(item) ==
    {[item EXCEPT !.impact = RoundToTenth(i), !.effort = RoundToTenth(e)] :
        i \in EdgeCorrected(item.impact), e \in EdgeCorrected(item.effort)}

RECURSIVE EdgePass(_, _, _)
EdgePass(done, items, i) ==
    IF i > Len(items) THEN done
    ELSE EdgePass({Append(d, it) : d \in done, it \in EdgeStep(items[i])},
                  items, i + 1)

\* every run of spreadPriorityMatrix(items): processed as the loop over the
\* groups leaves it (lines 277-306) and the array returned
spreadPriorityMatrix(items) ==
    LET start == processed(items)
    IN  UNION {{[afterGroups |-> spread, result |-> result] :
                    result \in EdgePass({<<>>}, spread, 1)} :
                  spread \in PairPass({start}, PairsOf(start), 1)}

----------------------------------------------------------------------------
(* Inputs of the resolver *)

tSa == <<"S", "a">>
tsa == <<"s", "a">>
tJo == <<"J", "o">>
tjo == <<"j", "o">>
tLe == <<"L", "e">>
tM  == <<"M">>
tBo == <<"B", "o">>

nSaJo  == <<tSa, tJo>>
nsajo  == <<tsa, tjo>>
nSaMJo == <<tSa, tM, tJo>>
nSaLe  == <<tSa, tLe>>
nSa    == <<tSa>>
nBoLe  == <<tBo, tLe>>

NoDemographics == [age |-> "", experience |-> "", department |-> "", companySize |-> ""]

MkPersona(id, name, role, goals, demographics, avatar) ==
    [ id |-> id, name |-> name, role |-> role, description |-> "",
      goals |-> goals, painPoints |-> <<>>,
      demographics |-> demographics, avatar |-> avatar ]

MkAvatar(color, initials) == [has |-> TRUE, color |-> color, initials |-> initials]

\* Personas a roster handed to the resolver may hold; the avatar is optional.
RosterPool ==
    { MkPersona("p1", nSaJo, "PM", <<"g1">>,
                [NoDemographics EXCEPT !.age = "30s"],
                MkAvatar(PERSONA_COLORS[1], <<"S", "J">>)),
      MkPersona("p2", nSaMJo, "", <<>>, NoDemographics, MkAvatar("", <<"S", "J">>)),
      MkPersona("p2", nsajo, "Dev", <<"g2">>, NoDemographics, NoAvatar),
      MkPersona("p1", nSaLe, "QA", <<>>, NoDemographics,
                MkAvatar(PERSONA_COLORS[1], <<"S", "L">>)),
      MkPersona("p3", nBoLe, "QA", <<"g1", "g3">>, NoDemographics, NoAvatar) }

CandidatePool ==
    { MkPersona("c1", nsajo, "Lead", <<"g2", "g1">>,
                [NoDemographics EXCEPT !.department = "Ops"],
                MkAvatar("", <<"S", "J">>)),
      MkPersona("c2", nSaMJo, "", <<"g3">>, NoDemographics,
                MkAvatar(PERSONA_COLORS[2], <<"S", "J">>)),
      MkPersona("p1", nSaLe, "Dev", <<>>, NoDemographics, NoAvatar),
      MkPersona("c1", nBoLe, "", <<"g1", "g1">>, NoDemographics,
                MkAvatar("", <<"B", "L">>)),
      MkPersona("u1", nSa, "PM", <<>>, NoDemographics, NoAvatar),
      MkPersona("c2", nSaJo, "PM", <<"g1">>, NoDemographics, NoAvatar),
      MkPersona("p3", nSa, "", <<"g2">>, NoDemographics, NoAvatar) }

Uuids == {"u1", "u2"}

\* The orders in which the uuids can first be drawn: a draw that repeats an
\* earlier one is skipped by the while loop like any other taken id.
UuidStreams ==
    {s \in [1..Cardinality(Uuids) -> Uuids] :
        \A i, j \in DOMAIN s : i # j => s[i] # s[j]}

----------------------------------------------------------------------------
(* The resolver applied call after call *)

DistinctIds(personas) ==
    \A i, j \in DOMAIN personas : i # j => personas[i].id # personas[j].id

NoResponse == [kind |-> "none", personas |-> <<>>, painPoints |-> <<>>]
NoExtraction == [status |-> "none", painPoints |-> <<>>, personas |-> <<>>]

ExtractIdle == llmResponse = NoResponse /\ extraction = NoExtraction

SpreadIdle ==
    inItems = <<>> /\ argItems = <<>> /\ outItems = <<>> /\ afterGroups = <<>>

\* Matrix.tsx, lines 580-583: every stage of the lifecycle with no pain point
initialPainPointsByStage == [s \in Range(stages) |-> <<>>]

\* A value that may be null is the sequence of no or one element.
Null == <<>>

\* no key of the application is set
EmptyStorage ==
    [painPoints |-> Null, personas |-> Null, analysis |-> Null, analysisHash |-> Null]

\* The page is not mounted.
AppIdle ==
    /\ painPointsByStage = initialPainPointsByStage
    /\ uploads = {}
    /\ mergeTarget = Null
    /\ analysis = Null
    /\ isLoaded = FALSE
    /\ localStorage = EmptyStorage
    /\ unattributed = {}
    /\ selectedPersonaIds = <<>>
    /\ lastAnalysisHash = Null
    /\ analyses = {}

\* The rosters of the data model: ids are unique within a roster.
InitResolve ==
    /\ \E n \in 0..MaxInitRoster :
          \E r \in [1..n -> RosterPool] : DistinctIds(r) /\ roster = r
    /\ inRoster = <<>>
    /\ inBatch = <<>>
    /\ idMapping = EmptyMapping
    /\ calls = 0
    /\ lastOp = "init"
    /\ ExtractIdle
    /\ SpreadIdle
    /\ AppIdle

\* roster = mergePersonasWithMapping(roster, batch).personas
Resolve(batch, uuidStream) ==
    /\ LET result == mergePersonasWithMapping(roster, batch, uuidStream)
       IN  /\ NoId \notin IdsOf(result.personas)
           /\ roster' = result.personas
           /\ idMapping' = result.idMapping
    /\ inRoster' = roster
    /\ inBatch' = batch
    /\ calls' = calls + 1
    /\ lastOp' = "resolve"
    /\ UNCHANGED extractVars
    /\ UNCHANGED spreadVars
    /\ UNCHANGED appVars

\* one call on the inputs Init has drawn
ResolveOnce ==
    /\ calls = 0
    /\ \E n \in 0..MaxBatch :
          \E batch \in [1..n -> CandidatePool], uuidStream \in UuidStreams :
              Resolve(batch, uuidStream)

NextResolve == ResolveOnce

SpecResolve == InitResolve /\ [][NextResolve]_vars

----------------------------------------------------------------------------
(* The resolver applied call after call, each call to the roster the previous
   one returned.  The first call receives any Persona[]: two entries may share
   an id, which the final pass of mergePersonasWithMapping is written for. *)

InitChain ==
    /\ \E n \in 0..MaxInitRoster : roster \in [1..n -> RosterPool]
    /\ inRoster = <<>>
    /\ inBatch = <<>>
    /\ idMapping = EmptyMapping
    /\ calls = 0
    /\ lastOp = "init"
    /\ ExtractIdle
    /\ SpreadIdle
    /\ AppIdle

\* Candidates whose ids collide with roster ids, with each other and with a
\* uuid the generator may draw.
ChainCandidates ==
    { MkPersona("p1", nSaLe, "Dev", <<>>, NoDemographics, NoAvatar),
      MkPersona("p1", nBoLe, "", <<"g1">>, NoDemographics, MkAvatar("", <<"B", "L">>)),
      MkPersona("u1", nSa, "PM", <<>>, NoDemographics, NoAvatar) }

\* roster = mergePersonasWithMapping(roster, batch).personas, any number of
\* times; only the roster is carried from call to call
ResolveNext ==
    /\ \E n \in 0..MaxBatch :
          \E batch \in [1..n -> ChainCandidates], uuidStream \in UuidStreams :
              LET result == mergePersonasWithMapping(roster, batch, uuidStream)
              IN  /\ NoId \notin IdsOf(result.personas)
                  /\ roster' = result.personas
    /\ calls' = IF calls < MaxCalls THEN calls + 1 ELSE calls
    /\ lastOp' = "resolve"
    /\ UNCHANGED <<inRoster, inBatch, idMapping>>
    /\ UNCHANGED extractVars
    /\ UNCHANGED spreadVars
    /\ UNCHANGED appVars

NextChain == ResolveNext

SpecChain == InitChain /\ [][NextChain]_vars

----------------------------------------------------------------------------
(* The application roster: it starts empty, receives the personas of each
   extracted batch through mergePersonasWithMapping, and loses a persona when
   the user deletes it. *)

RawPersona(name, role, goals) ==
    [ name |-> name, role |-> role, description |-> "", goals |-> goals,
      demographics |-> NoDemographics ]

RawPersonaPool ==
    { RawPersona(nSaJo, "PM", <<"g1">>),
      RawPersona(nBoLe, "", <<>>),
      RawPersona(<<>>, "", <<>>) }

UploadedNames == {nSaJo, nBoLe}

InitRoster ==
    /\ roster = <<>>
    /\ inRoster = <<>>
    /\ inBatch = <<>>
    /\ idMapping = EmptyMapping
    /\ calls = 0
    /\ lastOp = "init"
    /\ ExtractIdle
    /\ SpreadIdle
    /\ AppIdle

\* mergePersonasWithMapping(roster, personas of an extraction)
ResolveExtracted ==
    /\ calls < MaxOps
    /\ \E n \in 1..MaxBatch :
          \E personasArray \in [1..n -> {q \in RawPersonaPool : q.name \in UploadedNames}],
             uuids \in [1..n -> Uuids],
             uuidStream \in UuidStreams :
               Resolve(ExtractPersonas(personasArray, uuids), uuidStream)

\* prev.filter(p => p.id !== personaId)
RemovePersona(personas, personaId) ==
    SelectSeq(personas, LAMBDA q : q.id # personaId)

DeleteFromRoster ==
    /\ calls < MaxOps
    /\ \E i \in DOMAIN roster : roster' = RemovePersona(roster, roster[i].id)
    /\ calls' = calls + 1
    /\ lastOp' = "delete"
    /\ UNCHANGED <<inRoster, inBatch, idMapping>>
    /\ UNCHANGED extractVars
    /\ UNCHANGED spreadVars
    /\ UNCHANGED appVars

NextRoster == ResolveExtracted \/ DeleteFromRoster

SpecRoster == InitRoster /\ [][NextRoster]_vars

----------------------------------------------------------------------------
(* One request to the extract-painpoints route *)

RawPainPoint(title, stage, personaIndex) ==
    [ title |-> title, details |-> "", description |-> "", severity |-> "high",
      stage |-> stage, source |-> "", personaIndex |-> personaIndex ]

PersonaIndexes ==
    { AbsentIndex, NullIndex, NumberIndex(-1), NumberIndex(0), NumberIndex(1),
      NumberIndex(MaxRawPersonas) }

RawPainPointPool ==
    { RawPainPoint("t", "review", ix) : ix \in PersonaIndexes }
    \cup { [RawPainPoint("", "nowhere", NumberIndex(0))
                EXCEPT !.severity = "", !.description = "d"] }

Response(kind, personas, painPoints) ==
    [kind |-> kind, personas |-> personas, painPoints |-> painPoints]

\* The call failed, the answer was not JSON (with or without bullet lines),
\* or the answer was JSON with personas and pain points.
IsResponse(r) ==
    \/ r = Response("apiError", <<>>, <<>>)
    \/ \E n \in 0..1 :
          r = Response("unparsable", <<>>,
                       [k \in 1..n |-> RawPainPoint("t", "review", AbsentIndex)])
    \/ \E n \in 0..MaxRawPersonas, m \in 0..MaxRawPainPoints :
          \E ps \in [1..n -> RawPersonaPool], pps \in [1..m -> RawPainPointPool] :
              r = Response("json", ps, pps)

Stamps == {1}

InitExtract ==
    /\ roster = <<>>
    /\ inRoster = <<>>
    /\ inBatch = <<>>
    /\ idMapping = EmptyMapping
    /\ calls = 0
    /\ lastOp = "init"
    /\ IsResponse(llmResponse)
    /\ extraction = NoExtraction
    /\ SpreadIdle
    /\ AppIdle

Extract ==
    /\ lastOp = "init"
    /\ \E uuids \in [DOMAIN llmResponse.personas -> Uuids], stamp \in Stamps :
          extraction' = extractPainPointsAndPersonasFromTranscript(llmResponse, uuids, stamp)
    /\ lastOp' = "extract"
    /\ calls' = calls + 1
    /\ UNCHANGED llmResponse
    /\ UNCHANGED resolverVars
    /\ UNCHANGED spreadVars
    /\ UNCHANGED appVars

NextExtract == Extract

SpecExtract == InitExtract /\ [][NextExtract]_vars

----------------------------------------------------------------------------
(* ensurePersonaColors applied to a stored roster *)

ColorIds ==
    <<"q1", "q2", "q3", "q4", "q5", "q6", "q7", "q8", "q9", "q10", "q11", "q12",
      "q13", "q14", "q15", "q16", "q17", "q18", "q19", "q20", "q21", "q22", "q23",
      "q24">>

\* What a stored persona may hold as avatar: none, the first palette color
\* with initials, the last palette color without initials.
StoredAvatars ==
    { NoAvatar,
      MkAvatar(PERSONA_COLORS[1], <<"S", "J">>),
      MkAvatar(PERSONA_COLORS[PaletteSize], <<>>) }

StoredRoster(avatars) ==
    [i \in DOMAIN avatars |->
        MkPersona(ColorIds[i], nSaJo, "PM", <<>>, NoDemographics, avatars[i])]

\* Rosters larger than the palette: the first k personas hold the first
\* palette color, the others have no avatar (k = n: all share one color).
InitColors ==
    /\ \/ \E n \in 0..MaxColorRoster :
             \E avatars \in [1..n -> StoredAvatars] : roster = StoredRoster(avatars)
       \/ \E n \in (PaletteSize + 1)..MaxLongRoster, k \in 0..MaxLongRoster :
             /\ k <= n
             /\ roster = StoredRoster([i \in 1..n |->
                            IF i <= k THEN MkAvatar(PERSONA_COLORS[1], <<"S", "J">>)
                            ELSE NoAvatar])
    /\ inRoster = <<>>
    /\ inBatch = <<>>
    /\ idMapping = EmptyMapping
    /\ calls = 0
    /\ lastOp = "init"
    /\ ExtractIdle
    /\ SpreadIdle
    /\ AppIdle

\* roster = ensurePersonaColors(roster)
EnsureColors ==
    /\ lastOp = "init"
    /\ roster' = ensurePersonaColors(roster)
    /\ inRoster' = roster
    /\ lastOp' = "colors"
    /\ calls' = calls + 1
    /\ UNCHANGED <<inBatch, idMapping>>
    /\ UNCHANGED extractVars
    /\ UNCHANGED spreadVars
    /\ UNCHANGED appVars

NextColors == EnsureColors

SpecColors == InitColors /\ [][NextColors]_vars

----------------------------------------------------------------------------
(* spreadPriorityMatrix applied to a priority matrix *)

MkItem(priority, impact, effort, title, rationale) ==
    [priority |-> priority, impact |-> impact, effort |-> effort,
     title |-> title, rationale |-> rationale]

\* Items as the analysis response may carry them, each at most once in a
\* response: two of a group almost at
\* the same place, items on and near the edges, the same place under another
\* label, a label that is none of the four, a coordinate above the scale, an
\* item 0.2 from the first, an item 0.3 from that one and further from the
\* others.
ItemPool ==
    { MkItem("immediate", 2500, 2500, "t1", "r1"),
      MkItem("immediate", 2510, 2490, "t2", "r2"),
      MkItem("immediate", 1000, 5000, "t3", "r1"),
      MkItem("immediate", 2500, 2300, "t1", "r2"),
      MkItem("immediate", 2500, 2000, "t2", "r1"),
      MkItem("high", 2500, 2500, "t1", "r2"),
      MkItem("high", 4900, 1100, "t2", "r1"),
      MkItem("medium", 4860, 3000, "t3", "r2"),
      MkItem("low", 1140, 1200, "t1", "r1"),
      MkItem("urgent", 2500, 2500, "t2", "r2"),
      MkItem("urgent", 2510, 2490, "t1", "r1"),
      MkItem("low", 5600, 3000, "t3", "r1") }

InitSpread ==
    /\ roster = <<>>
    /\ inRoster = <<>>
    /\ inBatch = <<>>
    /\ idMapping = EmptyMapping
    /\ calls = 0
    /\ lastOp = "init"
    /\ ExtractIdle
    /\ \E n \in 0..MaxItems :
          \E items \in [1..n -> ItemPool] :
              /\ \A i, j \in 1..n : i # j => items[i] # items[j]
              /\ inItems = items
    /\ argItems = inItems
    /\ outItems = <<>>
    /\ afterGroups = <<>>
    /\ AppIdle

\* the items array of the caller as the call leaves it: the array itself is
\* not assigned to, its elements are the objects the returned array holds
ItemsAfterCall(items, result) ==
    [i \in DOMAIN items |-> IF i \in DOMAIN result THEN result[i] ELSE items[i]]

\* outItems = spreadPriorityMatrix(inItems)
Spread ==
    /\ lastOp = "init"
    /\ \E run \in spreadPriorityMatrix(inItems) :
          /\ outItems' = run.result
          /\ argItems' = ItemsAfterCall(inItems, run.result)
          /\ afterGroups' = run.afterGroups
    /\ lastOp' = "spread"
    /\ calls' = calls + 1
    /\ UNCHANGED inItems
    /\ UNCHANGED resolverVars
    /\ UNCHANGED extractVars
    /\ UNCHANGED appVars

NextSpread == Spread

SpecSpread == InitSpread /\ [][NextSpread]_vars

----------------------------------------------------------------------------
(* mergeTwoPersonas applied to two personas *)

\* What each field of a persona may hold; "" and <<>> are the absent values.
\* The personas handed to mergeTwoPersonas: every optional field present
\* or absent.
MergeInputs(id, names, roles, descriptions) ==
    [ id : {id}, name : names, role : roles, description : descriptions,
      goals : {<<"g1", "g2">>, <<"g2", "g3">>},
      painPoints : {<<>>},
      demographics :
          { NoDemographics,
            [NoDemographics EXCEPT !.age = "30s", !.experience = "5y"],
            [age |-> "40s", experience |-> "", department |-> "Ops", companySize |-> "50"] },
      avatar :
          { NoAvatar,
            MkAvatar("", <<"S", "J">>),
            MkAvatar(PERSONA_COLORS[2], <<"s", "j">>) } ]

InitMerge ==
    /\ roster = <<>>
    /\ \E p \in MergeInputs("p1", {<<>>, nSaJo}, {"", "PM"}, {"", "a"}) : inRoster = <<p>>
    /\ \E c \in MergeInputs("c1", {<<>>, nsajo}, {"", "Dev"}, {"", "b"}) : inBatch = <<c>>
    /\ idMapping = EmptyMapping
    /\ calls = 0
    /\ lastOp = "init"
    /\ ExtractIdle
    /\ SpreadIdle
    /\ AppIdle

\* roster = [mergeTwoPersonas(existing, incoming)]
MergeTwo ==
    /\ lastOp = "init"
    /\ roster' = <<mergeTwoPersonas(inRoster[1], inBatch[1])>>
    /\ lastOp' = "merge"
    /\ calls' = calls + 1
    /\ UNCHANGED <<inRoster, inBatch, idMapping>>
    /\ UNCHANGED extractVars
    /\ UNCHANGED spreadVars
    /\ UNCHANGED appVars

NextMerge == MergeTwo

SpecMerge == InitMerge /\ [][NextMerge]_vars

----------------------------------------------------------------------------
(* Home (Matrix.tsx): the page with its state, its effects and its handlers.
   A handler is one step together with the render and the save effects that
   follow it; handleFileUpload is two steps, the call up to the await of the
   response and the continuation, and so is analyzePainPoints.  The modals,
   the grouping, the model selection and the import of a file are left out. *)

AllPainPoints == UNION {Range(painPointsByStage[s]) : s \in Range(stages)}

\* lines 611-628: the string lists id, stage, severity and title of every
\* pain point in the order of the ids; it is given as the set of its entries
generatePainPointsHash(data) ==
    { <<pp.id, pp.stage, pp.severity, pp.title>> :
        pp \in UNION {Range(data[s]) : s \in DOMAIN data} }

\* lines 631-634
needsNewAnalysis ==
    <<generatePainPointsHash(painPointsByStage)>> # lastAnalysisHash \/ analysis = Null

\* what the analyze-painpoints route answers to a request with these pain
\* points: the analysis of them
AnalysisOf(allPainPoints) == [painPoints |-> allPainPoints]

\* lines 658-690: what the load effect reads from the storage into the state
LoadedState(storage, uuidStream) ==
    [ painPoints |-> IF storage.painPoints # Null THEN storage.painPoints[1]
                     ELSE initialPainPointsByStage,
      personas   |-> IF storage.personas # Null
                     THEN ensurePersonaColors(
                              ensureUniquePersonaIds(storage.personas[1], uuidStream))
                     ELSE <<>>,
      analysis   |-> storage.analysis,
      lastAnalysisHash |-> storage.analysisHash ]

\* lines 714-736: the save effects of a render in which the states `changed`
\* differ from the render before; loaded is the isLoaded of that render
SaveEffects(loaded, storage, changed, painPoints, personas, analysisData) ==
    IF ~loaded THEN storage
    ELSE [ painPoints |-> IF "painPoints" \in changed THEN <<painPoints>>
                          ELSE storage.painPoints,
           personas   |-> IF "personas" \in changed THEN <<personas>>
                          ELSE storage.personas,
           analysis   |-> IF "analysis" \in changed THEN analysisData
                          ELSE storage.analysis,
           analysisHash |-> storage.analysisHash ]

\* the render after a handler has set the states `changed`, and its save
\* effects; storage is the storage as the handler left it
Commit(storage, changed) ==
    localStorage' = SaveEffects(isLoaded, storage, changed,
                                painPointsByStage', roster', analysis')

\* What the storage holds when the page is opened: nothing; what the upload
\* of a transcript of two people and the analysis of its pain points have
\* left, the third pain point naming neither of the two; or the same after
\* the first of the two has been deleted and uploaded once more.
StoredStates ==
    LET uuidStream == <<"u1", "u2">>
        SaJo == RawPersona(nSaJo, "PM", <<"g1">>)
        BoLe == RawPersona(nBoLe, "", <<>>)
        both == ensureUniquePersonaIds(
                    mergePersonasWithMapping(<<>>,
                        ExtractPersonas(<<SaJo, BoLe>>, uuidStream), uuidStream).personas,
                    uuidStream)
        readded == ensureUniquePersonaIds(
                       mergePersonasWithMapping(RemovePersona(both, "u1"),
                           ExtractPersonas(<<SaJo>>, uuidStream), uuidStream).personas,
                       uuidStream)
        painPoint(index, personaId) ==
            [ id |-> <<0, index>>, title |-> "t", details |-> "", severity |-> "high",
              stage |-> "review", source |-> <<"Transcript", "file">>,
              personaId |-> personaId ]
        uploaded == [initialPainPointsByStage EXCEPT
                        !["review"] = <<painPoint(0, "u1"), painPoint(1, "u2"),
                                        painPoint(2, "")>>]
    IN  { EmptyStorage,
          [ painPoints |-> <<uploaded>>,
            personas   |-> <<both>>,
            analysis   |-> <<AnalysisOf(Range(uploaded["review"]))>>,
            analysisHash |-> <<generatePainPointsHash(uploaded)>> ],
          [ painPoints |-> << [initialPainPointsByStage EXCEPT
                                 !["review"] = <<painPoint(1, "u2")>>] >>,
            personas   |-> <<readded>>,
            analysis   |-> Null,
            analysisHash |-> Null ] }

\* lines 586-605: the first render, before its effects
InitHome ==
    /\ roster = <<>>
    /\ inRoster = <<>>
    /\ inBatch = <<>>
    /\ idMapping = EmptyMapping
    /\ calls = 0
    /\ lastOp = "init"
    /\ ExtractIdle
    /\ SpreadIdle
    /\ painPointsByStage = initialPainPointsByStage
    /\ uploads = {}
    /\ mergeTarget = Null
    /\ analysis = Null
    /\ isLoaded = FALSE
    /\ localStorage \in StoredStates
    /\ unattributed = {<<0, 2>>}
    /\ selectedPersonaIds = <<>>
    /\ lastAnalysisHash = Null
    /\ analyses = {}

\* lines 658-736: the effects of the first render.  The load effect sets the
\* state and isLoaded; the save effects of that render still see the initial
\* state and isLoaded = false.
Mount ==
    /\ ~isLoaded
    /\ \E uuidStream \in UuidStreams :
          LET loaded == LoadedState(localStorage, uuidStream)
          IN  /\ painPointsByStage' = loaded.painPoints
              /\ roster' = loaded.personas
              /\ analysis' = loaded.analysis
              /\ lastAnalysisHash' = loaded.lastAnalysisHash
    /\ isLoaded' = TRUE
    /\ localStorage' = SaveEffects(isLoaded, localStorage, {"painPoints", "personas", "analysis"},
                                   painPointsByStage, roster, analysis)
    /\ lastOp' = "mount"
    /\ UNCHANGED <<calls, uploads, mergeTarget, unattributed>>
    /\ UNCHANGED <<inRoster, inBatch, idMapping>>
    /\ UNCHANGED extractVars
    /\ UNCHANGED spreadVars
    /\ UNCHANGED <<selectedPersonaIds, analyses>>

\* lines 714-736: the save effects of the render that follows the load
RenderLoaded ==
    /\ lastOp = "mount"
    /\ localStorage' = SaveEffects(isLoaded, localStorage, {"painPoints", "personas", "analysis"},
                                   painPointsByStage, roster, analysis)
    /\ lastOp' = "loaded"
    /\ UNCHANGED <<roster, calls, painPointsByStage, uploads, mergeTarget, analysis,
                   isLoaded, unattributed>>
    /\ UNCHANGED <<inRoster, inBatch, idMapping>>
    /\ UNCHANGED extractVars
    /\ UNCHANGED spreadVars
    /\ UNCHANGED <<selectedPersonaIds, lastAnalysisHash, analyses>>

\* The page is reloaded: the state is the first render's again, and the
\* calls that await a response are gone with the old page.
Reload ==
    /\ isLoaded
    /\ lastOp # "mount"
    /\ calls < MaxHomeOps
    /\ calls' = calls + 1
    /\ roster' = <<>>
    /\ painPointsByStage' = initialPainPointsByStage
    /\ uploads' = {}
    /\ mergeTarget' = Null
    /\ analysis' = Null
    /\ isLoaded' = FALSE
    /\ lastOp' = "init"
    /\ UNCHANGED <<localStorage, unattributed>>
    /\ UNCHANGED <<inRoster, inBatch, idMapping>>
    /\ UNCHANGED extractVars
    /\ UNCHANGED spreadVars
    /\ selectedPersonaIds' = <<>>
    /\ lastAnalysisHash' = Null
    /\ analyses' = {}

\* a handler can run: the page is loaded and rendered
Ready == isLoaded /\ lastOp # "mount" /\ calls < MaxHomeOps

\* What the extract-painpoints route may answer to an upload.
UploadResponses ==
    { Response("apiError", <<>>, <<>>),
      Response("unparsable", <<>>, <<RawPainPoint("t", "review", AbsentIndex)>>),
      Response("json", <<RawPersona(nSaJo, "PM", <<"g1">>)>>,
               <<RawPainPoint("t", "review", NumberIndex(0)),
                 RawPainPoint("t", "review", AbsentIndex)>>),
      Response("json", <<RawPersona(nBoLe, "", <<>>)>>,
               <<RawPainPoint("t", "review", AbsentIndex),
                 RawPainPoint("t", "handoff", NumberIndex(1))>>),
      Response("json", <<RawPersona(nSaJo, "PM", <<"g1">>), RawPersona(nBoLe, "", <<>>)>>,
               <<RawPainPoint("t", "review", NumberIndex(1)),
                 RawPainPoint("t", "review", AbsentIndex)>>),
      Response("json", <<RawPersona(nBoLe, "", <<>>), RawPersona(nSaJo, "PM", <<"g1">>)>>,
               <<RawPainPoint("t", "review", NumberIndex(2))>>) }

\* lines 749-767: handleFileUpload up to the response.  `personas` is the
\* roster of the render the handler was created in; the route answers with
\* the extraction of what the language model delivered.
StartUpload ==
    /\ Ready
    /\ Cardinality(uploads) < MaxUploads
    /\ \E response \in UploadResponses, uuids \in UuidStreams :
          uploads' = uploads \cup
              { [ id         |-> calls + 1,
                  personas   |-> roster,
                  response   |-> response,
                  extraction |-> extractPainPointsAndPersonasFromTranscript(
                                     response, uuids, calls + 1) ] }
    /\ calls' = calls + 1
    /\ lastOp' = "startUpload"
    /\ UNCHANGED <<roster, painPointsByStage, mergeTarget, analysis, isLoaded,
                   localStorage, unattributed>>
    /\ UNCHANGED <<inRoster, inBatch, idMapping>>
    /\ UNCHANGED extractVars
    /\ UNCHANGED spreadVars
    /\ UNCHANGED <<selectedPersonaIds, lastAnalysisHash, analyses>>

\* lines 789-794 with the personaId of the response kept
EnhancedPainPointKeepId(pp, personaIdMap, fileName) ==
    [pp EXCEPT !.source = <<pp.source, fileName>>]

\* lines 789-794; fileName stands for the name of the uploaded file
EnhancedPainPoint(pp, personaIdMap, fileName) ==
    [pp EXCEPT
        !.source = <<pp.source, fileName>>,
        !.personaId =
            IF pp.personaId # ""
            THEN IF pp.personaId \in DOMAIN personaIdMap /\ personaIdMap[pp.personaId] # ""
                 THEN personaIdMap[pp.personaId]
                 ELSE pp.personaId
            ELSE ""]

\* lines 805-818: the new pain points are added to the stages of the state
\* the updater receives
RECURSIVE AddToStages(_, _, _)
AddToStages(byStage, newPainPoints, k) ==
    IF k > Len(newPainPoints) THEN byStage
    ELSE LET stage == newPainPoints[k].stage
         IN  AddToStages(
                IF stage \in DOMAIN byStage
                THEN [byStage EXCEPT ![stage] = Append(@, newPainPoints[k])]
                ELSE byStage,
                newPainPoints, k + 1)

\* the pain points of an answer with several personas whose personaIndex
\* names none of them: it is absent, or not below the number of personas
LeftUnattributed(upload) ==
    LET n == Len(upload.response.personas)
        namesNoPersona(personaIndex) ==
            \/ personaIndex.kind = "absent"
            \/ personaIndex.kind = "number" /\ personaIndex.value >= n
    IN  IF Len(upload.extraction.personas) < 2 THEN {}
        ELSE { upload.extraction.painPoints[k].id :
                 k \in { j \in DOMAIN upload.extraction.painPoints :
                           namesNoPersona(upload.response.painPoints[j].personaIndex) } }

\* lines 763-825: the continuation of handleFileUpload once the response is
\* there; a response that is not ok ends in the catch block.
FinishUpload ==
    /\ Ready
    /\ calls' = calls + 1
    /\ UNCHANGED <<mergeTarget, analysis, isLoaded>>
    /\ UNCHANGED spreadVars
    /\ UNCHANGED <<selectedPersonaIds, analyses>>
    /\ \E upload \in uploads, uuidStream \in UuidStreams :
          LET extracted == upload.extraction
              mergeResult == mergePersonasWithMapping(upload.personas, extracted.personas,
                                                      uuidStream)
              finalPersonas == ensureUniquePersonaIds(mergeResult.personas, uuidStream)
              personaIdMap == IF extracted.personas # <<>> THEN mergeResult.idMapping
                              ELSE EmptyMapping
              enhancedPainPoints ==
                  [k \in DOMAIN extracted.painPoints |->
                      EnhancedPainPoint(extracted.painPoints[k], personaIdMap, "file")]
          IN  /\ uploads' = uploads \ {upload}
              /\ llmResponse' = upload.response
              /\ extraction' = extracted
              /\ IF extracted.status = "error"
                 THEN /\ UNCHANGED <<roster, painPointsByStage, localStorage, unattributed,
                                     lastAnalysisHash>>
                      /\ UNCHANGED <<inRoster, inBatch, idMapping>>
                      /\ lastOp' = "uploadFailed"
                 ELSE /\ NoId \notin IdsOf(finalPersonas)
                      /\ roster' = IF extracted.personas # <<>> THEN finalPersonas ELSE roster
                      /\ painPointsByStage' =
                             AddToStages(painPointsByStage, enhancedPainPoints, 1)
                      /\ unattributed' = unattributed \cup LeftUnattributed(upload)
                      /\ inRoster' = upload.personas
                      /\ inBatch' = extracted.personas
                      /\ idMapping' = personaIdMap
                      /\ lastOp' = "upload"
                      /\ lastAnalysisHash' = Null
                      /\ Commit([localStorage EXCEPT !.analysisHash = Null],
                                IF extracted.personas # <<>>
                                THEN {"painPoints", "personas"} ELSE {"painPoints"})

\* lines 913-921; the pain point is the one PainPointModal submits, its
\* persona one of the roster or none
addPainPoint ==
    /\ Ready
    /\ UNCHANGED <<roster, uploads, mergeTarget, analysis, isLoaded, unattributed>>
    /\ UNCHANGED <<inRoster, inBatch, idMapping>>
    /\ UNCHANGED extractVars
    /\ UNCHANGED spreadVars
    /\ UNCHANGED <<selectedPersonaIds, analyses>>
    /\ lastAnalysisHash' = Null
    /\ \E personaId \in IdsOf(roster) \cup {""} :
          LET painPoint ==
                  [ id |-> <<calls + 1, -1>>, title |-> "m", details |-> "",
                    severity |-> "medium", stage |-> "requirements",
                    source |-> <<"", "">>, personaId |-> personaId ]
          IN  painPointsByStage' =
                  [painPointsByStage EXCEPT ![painPoint.stage] = Append(@, painPoint)]
    /\ calls' = calls + 1
    /\ lastOp' = "addPainPoint"
    /\ Commit([localStorage EXCEPT !.analysisHash = Null], {"painPoints"})

\* lines 923-931
deletePainPoint ==
    /\ Ready
    /\ calls' = calls + 1
    /\ UNCHANGED <<roster, uploads, mergeTarget, analysis, isLoaded, unattributed>>
    /\ UNCHANGED <<inRoster, inBatch, idMapping>>
    /\ UNCHANGED extractVars
    /\ UNCHANGED spreadVars
    /\ UNCHANGED <<selectedPersonaIds, analyses>>
    /\ lastAnalysisHash' = Null
    /\ \E pp \in AllPainPoints :
          painPointsByStage' =
              [painPointsByStage EXCEPT
                  ![pp.stage] = SelectSeq(@, LAMBDA q : q.id # pp.id)]
    /\ lastOp' = "deletePainPoint"
    /\ Commit([localStorage EXCEPT !.analysisHash = Null], {"painPoints"})

\* lines 951-978: the dragged pain point is dropped on another stage
handleDrop ==
    /\ Ready
    /\ UNCHANGED <<roster, uploads, mergeTarget, analysis, isLoaded, unattributed>>
    /\ UNCHANGED <<inRoster, inBatch, idMapping>>
    /\ UNCHANGED extractVars
    /\ UNCHANGED spreadVars
    /\ UNCHANGED <<selectedPersonaIds, analyses>>
    /\ lastAnalysisHash' = Null
    /\ \E draggedPainPoint \in AllPainPoints, targetStage \in {"review", "handoff"} :
          /\ draggedPainPoint.stage # targetStage
          /\ painPointsByStage' =
                [painPointsByStage EXCEPT
                    ![draggedPainPoint.stage] =
                        SelectSeq(@, LAMBDA q : q.id # draggedPainPoint.id),
                    ![targetStage] =
                        Append(@, [draggedPainPoint EXCEPT !.stage = targetStage])]
    /\ calls' = calls + 1
    /\ lastOp' = "drop"
    /\ Commit([localStorage EXCEPT !.analysisHash = Null], {"painPoints"})

\* PersonaModal, lines 88-113: the persona of a new entry
ManualPersona(uuid, name, existingPersonas) ==
    [ id |-> uuid, name |-> name, role |-> "Buyer", description |-> "",
      goals |-> <<>>, painPoints |-> <<>>, demographics |-> NoDemographics,
      avatar |-> [ has |-> TRUE, color |-> getNextAvailableColor(existingPersonas),
                   initials |-> generateInitials(name) ] ]

\* lines 985-992: the modal was opened for a new persona, or for editing one
\* of the roster
handleAddPersona ==
    /\ Ready
    /\ UNCHANGED <<painPointsByStage, uploads, mergeTarget, analysis, isLoaded, unattributed>>
    /\ UNCHANGED <<inRoster, inBatch, idMapping>>
    /\ UNCHANGED extractVars
    /\ UNCHANGED spreadVars
    /\ UNCHANGED <<selectedPersonaIds, lastAnalysisHash, analyses>>
    /\ \/ \E uuid \in Uuids, uuidStream \in UuidStreams :
             LET added == ensureUniquePersonaIds(
                              Append(roster, ManualPersona(uuid, nSaLe, roster)), uuidStream)
             IN  /\ NoId \notin IdsOf(added)
                 /\ roster' = added
       \/ \E i \in DOMAIN roster :
             LET persona == [roster[i] EXCEPT !.role = "Lead"]
             IN  roster' = [k \in DOMAIN roster |->
                               IF roster[k].id = persona.id THEN persona ELSE roster[k]]
    /\ calls' = calls + 1
    /\ lastOp' = "addPersona"
    /\ Commit(localStorage, {"personas"})

\* lines 1005-1012 without the comparison with the deleted persona's id
ClearEveryPersonaId(byStage, personaId) ==
    [s \in DOMAIN byStage |->
        [k \in DOMAIN byStage[s] |-> [byStage[s][k] EXCEPT !.personaId = ""]]]

\* lines 1005-1012
ClearPersonaId(byStage, personaId) ==
    [s \in DOMAIN byStage |->
        [k \in DOMAIN byStage[s] |->
            IF byStage[s][k].personaId = personaId
            THEN [byStage[s][k] EXCEPT !.personaId = ""]
            ELSE byStage[s][k]]]

\* lines 999-1014
handleDeletePersona ==
    /\ Ready
    /\ calls' = calls + 1
    /\ UNCHANGED <<uploads, mergeTarget, analysis, isLoaded, unattributed>>
    /\ UNCHANGED <<inRoster, inBatch, idMapping>>
    /\ UNCHANGED extractVars
    /\ UNCHANGED spreadVars
    /\ UNCHANGED <<lastAnalysisHash, analyses>>
    /\ \E i \in DOMAIN roster :
          /\ roster' = RemovePersona(roster, roster[i].id)
          /\ painPointsByStage' = ClearPersonaId(painPointsByStage, roster[i].id)
          /\ selectedPersonaIds' =
                 SelectSeq(selectedPersonaIds, LAMBDA id : id # roster[i].id)
    /\ lastOp' = "deletePersona"
    /\ Commit(localStorage, {"painPoints", "personas"})

\* lines 1024-1027 and 1197-1198: merge mode is on and a persona is selected
startMergeMode ==
    /\ Ready
    /\ calls' = calls + 1
    /\ mergeTarget = Null
    /\ \E i \in DOMAIN roster : mergeTarget' = <<roster[i]>>
    /\ lastOp' = "startMergeMode"
    /\ UNCHANGED <<roster, painPointsByStage, uploads, analysis, isLoaded,
                   localStorage, unattributed>>
    /\ UNCHANGED <<inRoster, inBatch, idMapping>>
    /\ UNCHANGED extractVars
    /\ UNCHANGED spreadVars
    /\ UNCHANGED <<selectedPersonaIds, lastAnalysisHash, analyses>>

\* lines 1029-1032
cancelMergeMode ==
    /\ Ready
    /\ calls' = calls + 1
    /\ mergeTarget # Null
    /\ mergeTarget' = Null
    /\ lastOp' = "cancelMergeMode"
    /\ UNCHANGED <<roster, painPointsByStage, uploads, analysis, isLoaded,
                   localStorage, unattributed>>
    /\ UNCHANGED <<inRoster, inBatch, idMapping>>
    /\ UNCHANGED extractVars
    /\ UNCHANGED spreadVars
    /\ UNCHANGED <<selectedPersonaIds, lastAnalysisHash, analyses>>

\* lines 1047-1057
MovePersonaId(byStage, fromId, toId) ==
    [s \in DOMAIN byStage |->
        [k \in DOMAIN byStage[s] |->
            IF byStage[s][k].personaId = fromId
            THEN [byStage[s][k] EXCEPT !.personaId = toId]
            ELSE byStage[s][k]]]

\* lines 1034-1068; the merge button is on the cards of the personas other
\* than the target (lines 1202-1205)
mergePersonasWith ==
    /\ Ready
    /\ calls' = calls + 1
    /\ mergeTarget # Null
    /\ UNCHANGED <<uploads, analysis, isLoaded, unattributed>>
    /\ UNCHANGED <<inRoster, inBatch, idMapping>>
    /\ UNCHANGED extractVars
    /\ UNCHANGED spreadVars
    /\ UNCHANGED <<lastAnalysisHash, analyses>>
    /\ \E i \in DOMAIN roster :
          LET secondaryPersona == roster[i]
              target == mergeTarget[1]
              mergedPersona == manualMergePersonas(target, secondaryPersona)
          IN  /\ secondaryPersona.id # target.id
              /\ roster' = RemovePersona(
                               [k \in DOMAIN roster |->
                                   IF roster[k].id = target.id THEN mergedPersona
                                   ELSE roster[k]],
                               secondaryPersona.id)
              /\ painPointsByStage' =
                     MovePersonaId(painPointsByStage, secondaryPersona.id, target.id)
              /\ selectedPersonaIds' =
                     SelectSeq(selectedPersonaIds, LAMBDA id : id # secondaryPersona.id)
    /\ mergeTarget' = Null
    /\ lastOp' = "mergePersonas"
    /\ Commit(localStorage, {"painPoints", "personas"})

\* lines 1016-1022
togglePersonaSelection ==
    /\ Ready
    /\ calls' = calls + 1
    /\ \E i \in DOMAIN roster :
          LET personaId == roster[i].id
          IN  selectedPersonaIds' =
                  IF personaId \in Range(selectedPersonaIds)
                  THEN SelectSeq(selectedPersonaIds, LAMBDA id : id # personaId)
                  ELSE Append(selectedPersonaIds, personaId)
    /\ lastOp' = "toggleSelection"
    /\ UNCHANGED <<roster, painPointsByStage, uploads, mergeTarget, analysis, isLoaded,
                   localStorage, unattributed, lastAnalysisHash, analyses>>
    /\ UNCHANGED <<inRoster, inBatch, idMapping>>
    /\ UNCHANGED extractVars
    /\ UNCHANGED spreadVars

\* lines 1087-1111: analyzePainPoints up to the request.  The stored
\* analysis is shown when it need not be renewed and renewal is not forced;
\* the button that forces it is there when needsNewAnalysis() is false
\* (lines 1287-1296).  The request carries the pain points of the render the
\* handler was created in.
analyzePainPoints ==
    /\ Ready
    /\ calls' = calls + 1
    /\ AllPainPoints # {}
    /\ \E forceRegenerate \in BOOLEAN :
          /\ forceRegenerate => ~needsNewAnalysis
          /\ IF ~forceRegenerate /\ ~needsNewAnalysis
             THEN /\ lastOp' = "viewAnalysis"
                  /\ UNCHANGED analyses
             ELSE /\ Cardinality(analyses) < MaxAnalyses
                  /\ lastOp' = "analyze"
                  /\ analyses' = analyses \cup
                        {[id |-> calls + 1, painPointsByStage |-> painPointsByStage]}
    /\ UNCHANGED <<roster, painPointsByStage, uploads, mergeTarget, analysis, isLoaded,
                   localStorage, unattributed, selectedPersonaIds, lastAnalysisHash>>
    /\ UNCHANGED <<inRoster, inBatch, idMapping>>
    /\ UNCHANGED extractVars
    /\ UNCHANGED spreadVars

\* line 1125 with the pain points of the page as it is when the response
\* arrives
currentHashOfPage(request) == generatePainPointsHash(painPointsByStage)

\* line 1125: painPointsByStage is that of the render the handler was
\* created in
currentHash(request) == generatePainPointsHash(request.painPointsByStage)

\* lines 1113-1134: the continuation of analyzePainPoints once the response
\* is there; a response that is not ok ends in the catch block
FinishAnalysis ==
    /\ Ready
    /\ calls' = calls + 1
    /\ UNCHANGED <<roster, painPointsByStage, uploads, mergeTarget, isLoaded,
                   unattributed, selectedPersonaIds>>
    /\ UNCHANGED <<inRoster, inBatch, idMapping>>
    /\ UNCHANGED extractVars
    /\ UNCHANGED spreadVars
    /\ \E request \in analyses, ok \in BOOLEAN :
          LET data == request.painPointsByStage
          IN  /\ analyses' = analyses \ {request}
              /\ IF ok
                 THEN /\ analysis' =
                            <<AnalysisOf(UNION {Range(data[s]) : s \in DOMAIN data})>>
                      /\ lastAnalysisHash' = <<currentHash(request)>>
                      /\ lastOp' = "analysis"
                      /\ Commit([localStorage EXCEPT
                                    !.analysisHash = <<currentHash(request)>>],
                                {"analysis"})
                 ELSE /\ UNCHANGED <<analysis, lastAnalysisHash, localStorage>>
                      /\ lastOp' = "analysisFailed"

\* lines 829-848: the keys are removed, and the save effects of the next
\* render run for every state that was set to a new value
clearAll ==
    /\ Ready
    /\ calls' = calls + 1
    /\ roster' = <<>>
    /\ painPointsByStage' = initialPainPointsByStage
    /\ analysis' = Null
    /\ lastOp' = "clearAll"
    /\ UNCHANGED <<uploads, mergeTarget, isLoaded, unattributed>>
    /\ UNCHANGED <<inRoster, inBatch, idMapping>>
    /\ UNCHANGED extractVars
    /\ UNCHANGED spreadVars
    /\ selectedPersonaIds' = <<>>
    /\ lastAnalysisHash' = Null
    /\ UNCHANGED analyses
    /\ Commit(EmptyStorage,
              IF analysis # Null THEN {"painPoints", "personas", "analysis"} ELSE {"painPoints", "personas"})

NextHome ==
    \/ Mount
    \/ RenderLoaded
    \/ Reload
    \/ StartUpload
    \/ FinishUpload
    \/ addPainPoint
    \/ deletePainPoint
    \/ handleDrop
    \/ handleAddPersona
    \/ handleDeletePersona
    \/ startMergeMode
    \/ cancelMergeMode
    \/ mergePersonasWith
    \/ togglePersonaSelection
    \/ analyzePainPoints
    \/ FinishAnalysis
    \/ clearAll

SpecHome == InitHome /\ [][NextHome]_vars

----------------------------------------------------------------------------
(* Properties of the resolver *)

Resolved == lastOp = "resolve"

\* C1: every value of the returned id mapping is the id of a persona of the
\* returned roster.
C1_MappedIdsInRoster ==
    Resolved => \A k \in DOMAIN idMapping : idMapping[k] \in IdsOf(roster)

C1_Witness ==
    /\ Resolved
    /\ \E k \in DOMAIN idMapping : idMapping[k] # k
    /\ \E k \in DOMAIN idMapping : idMapping[k] = k
    /\ Len(roster) > Len(inRoster)

SameNameIgnoringCase(p, q) == toLowerCase(p.name) = toLowerCase(q.name)

SameFirstAndLastToken(p, q) ==
    LET a == toLowerCase(p.name)
        b == toLowerCase(q.name)
    IN  /\ Len(a) >= 2
        /\ Len(b) >= 2
        /\ a[1] = b[1]
        /\ a[Len(a)] = b[Len(b)]

SharesOnlyFirstToken(p, q) ==
    LET a == toLowerCase(p.name)
        b == toLowerCase(q.name)
    IN  /\ Len(a) >= 1
        /\ Len(b) >= 1
        /\ a[1] = b[1]
        /\ a[Len(a)] # b[Len(b)]

NameMatches(p, q) == SameNameIgnoringCase(p, q) \/ SameFirstAndLastToken(p, q)

FirstWithName(personas, c) ==
    CHOOSE i \in DOMAIN personas :
        /\ SameNameIgnoringCase(personas[i], c)
        /\ \A j \in 1..(i - 1) : ~SameNameIgnoringCase(personas[j], c)

SingleCandidate == Resolved /\ Len(inBatch) = 1

\* C2: a single candidate whose name equals a roster persona's name ignoring
\* case leaves the roster at its size and is mapped to the id of the first
\* roster persona with that name, also when another roster persona matches it
\* by first and last token only.
C2_ExactNameMerges ==
    ( /\ SingleCandidate
      /\ \E i \in DOMAIN inRoster : SameNameIgnoringCase(inRoster[i], inBatch[1]) )
    => /\ Len(roster) = Len(inRoster)
       /\ inBatch[1].id \in DOMAIN idMapping
       /\ idMapping[inBatch[1].id] = inRoster[FirstWithName(inRoster, inBatch[1])].id

C2_Witness ==
    /\ SingleCandidate
    /\ \E i, j \in DOMAIN inRoster :
          /\ j < i
          /\ SameNameIgnoringCase(inRoster[i], inBatch[1])
          /\ ~SameNameIgnoringCase(inRoster[j], inBatch[1])
          /\ SameFirstAndLastToken(inRoster[j], inBatch[1])
          /\ idMapping[inBatch[1].id] = inRoster[i].id
          /\ inBatch[1].name # inRoster[i].name

\* C3: a single candidate that shares only its first name token with a roster
\* persona and matches no roster persona is appended as a new persona: the
\* roster grows by exactly one, no roster persona takes the candidate's data
\* and the candidate's id maps to the id of the appended persona.
C3_FirstNameOnlyAppends ==
    ( /\ SingleCandidate
      /\ \E i \in DOMAIN inRoster : SharesOnlyFirstToken(inRoster[i], inBatch[1])
      /\ \A i \in DOMAIN inRoster : ~NameMatches(inRoster[i], inBatch[1]) )
    => /\ Len(roster) = Len(inRoster) + 1
       /\ \A i \in DOMAIN inRoster :
             /\ roster[i].id = inRoster[i].id
             /\ roster[i].name = inRoster[i].name
             /\ roster[i].goals = inRoster[i].goals
       /\ roster[Len(roster)].name = inBatch[1].name
       /\ roster[Len(roster)].id \notin IdsOf(inRoster)
       /\ inBatch[1].id \in DOMAIN idMapping
       /\ idMapping[inBatch[1].id] = roster[Len(roster)].id

C3_Witness ==
    /\ SingleCandidate
    /\ \E i \in DOMAIN inRoster :
          /\ SharesOnlyFirstToken(inRoster[i], inBatch[1])
          /\ Len(inRoster[i].name) >= 2
    /\ Len(inBatch[1].name) >= 2
    /\ Len(roster) = Len(inRoster) + 1
    /\ inBatch[1].id \in IdsOf(inRoster)
    /\ idMapping[inBatch[1].id] # inBatch[1].id

HasFullAvatar(p) == p.avatar.has /\ p.avatar.color # "" /\ p.avatar.initials # <<>>

\* C4 as stated: with an empty candidate list the roster is returned unchanged,
\* entry for entry and field for field, with an empty mapping.
C4_EmptyBatchReturnsRosterUnchanged ==
    (Resolved /\ inBatch = <<>>) => (roster = inRoster /\ idMapping = EmptyMapping)

\* C4 (amended): with an empty candidate list the mapping is empty and the
\* roster keeps its personas in their order; a persona that has an avatar with
\* a color and initials is returned unchanged field for field, any other
\* persona is returned with a colored avatar and all its other fields unchanged
\* (an avatar color it had is kept).
C4_EmptyBatchFillsAvatarsOnly ==
    (Resolved /\ inBatch = <<>>)
    => /\ idMapping = EmptyMapping
       /\ Len(roster) = Len(inRoster)
       /\ \A i \in DOMAIN inRoster :
             /\ HasFullAvatar(inRoster[i]) => roster[i] = inRoster[i]
             /\ [roster[i] EXCEPT !.avatar = NoAvatar]
                    = [inRoster[i] EXCEPT !.avatar = NoAvatar]
             /\ roster[i].avatar.has
             /\ roster[i].avatar.color # ""
             /\ inRoster[i].avatar.color # ""
                    => roster[i].avatar.color = inRoster[i].avatar.color

C4_Witness ==
    /\ Resolved
    /\ inBatch = <<>>
    /\ \E i, j \in DOMAIN inRoster :
          /\ i < j
          /\ ~HasFullAvatar(inRoster[i])
          /\ roster[i] # inRoster[i]
          /\ HasFullAvatar(inRoster[j])
          /\ roster[j] = inRoster[j]

\* C5: after any sequence of calls, each on the roster the previous call
\* returned and on an arbitrary batch, no two personas of the roster have the
\* same id.
C5_RosterIdsUnique ==
    Resolved => DistinctIds(roster)

\* after two calls or more: the roster holds a persona under "p1" and both
\* candidates that came as "p1", each under an id the generator drew
C5_Witness ==
    /\ Resolved
    /\ calls >= 2
    /\ "p1" \in IdsOf(roster)
    /\ \E i, j \in DOMAIN roster :
          /\ roster[i].name = nSaLe /\ roster[i].id \in Uuids
          /\ roster[j].name = nBoLe /\ roster[j].id \in Uuids

SingleUnmatched ==
    /\ SingleCandidate
    /\ \A i \in DOMAIN inRoster : ~NameMatches(inRoster[i], inBatch[1])

\* the candidate as the last roster entry, under the id newId
AppendedAs(newId) ==
    /\ Len(roster) = Len(inRoster) + 1
    /\ roster[Len(roster)].id = newId
    /\ [roster[Len(roster)] EXCEPT !.id = "", !.avatar = NoAvatar]
          = [inBatch[1] EXCEPT !.id = "", !.avatar = NoAvatar]
    /\ DOMAIN idMapping = {inBatch[1].id}
    /\ idMapping[inBatch[1].id] = newId

\* C13 as stated: an unmatched candidate whose id a roster persona owns is
\* appended under a fresh id that no roster persona has and is mapped to it,
\* and the roster personas keep their ids and their data; an unmatched
\* candidate whose id is not in the roster is appended under its own id and
\* mapped to itself.
C13_CollidingIdLeavesOwnerUntouched ==
    SingleUnmatched
    => /\ \A i \in DOMAIN inRoster : roster[i] = inRoster[i]
       /\ IF inBatch[1].id \in IdsOf(inRoster)
          THEN /\ roster[Len(roster)].id \notin IdsOf(inRoster)
               /\ AppendedAs(roster[Len(roster)].id)
          ELSE AppendedAs(inBatch[1].id)

\* C13 (amended): as stated, except that a roster persona keeps its id and
\* every field but the avatar, which is filled in when it lacked a color or
\* initials and is unchanged otherwise.
C13_CollidingIdGetsFreshId ==
    SingleUnmatched
    => /\ \A i \in DOMAIN inRoster :
             /\ HasFullAvatar(inRoster[i]) => roster[i] = inRoster[i]
             /\ [roster[i] EXCEPT !.avatar = NoAvatar]
                    = [inRoster[i] EXCEPT !.avatar = NoAvatar]
       /\ IF inBatch[1].id \in IdsOf(inRoster)
          THEN /\ roster[Len(roster)].id \notin IdsOf(inRoster)
               /\ AppendedAs(roster[Len(roster)].id)
          ELSE AppendedAs(inBatch[1].id)

\* a candidate appended under a drawn id while the owner of its id, which had
\* no avatar, got one
C13_Witness ==
    /\ SingleUnmatched
    /\ \E i \in DOMAIN inRoster :
          /\ inRoster[i].id = inBatch[1].id
          /\ ~inRoster[i].avatar.has
          /\ roster[i].avatar.has
          /\ roster[i].id = inRoster[i].id
    /\ roster[Len(roster)].id \in Uuids
    /\ idMapping[inBatch[1].id] = roster[Len(roster)].id

\* the persona carries what the candidate brought: a name the candidate's
\* name matches and every goal of the candidate
HoldsDataOf(persona, candidate) ==
    /\ NameMatches(persona, candidate)
    /\ Range(candidate.goals) \subseteq Range(persona.goals)

\* C17: for every candidate of the batch, whether or not two candidates carry
\* the same id, the mapping sends the candidate's id to the id of the roster
\* persona that holds the candidate's data after the call.
C17_MappingFollowsEveryCandidate ==
    Resolved
    => \A k \in DOMAIN inBatch :
          /\ inBatch[k].id \in DOMAIN idMapping
          /\ \E i \in DOMAIN roster :
                /\ roster[i].id = idMapping[inBatch[k].id]
                /\ HoldsDataOf(roster[i], inBatch[k])

Merged == lastOp = "merge"

\* the candidate's value when it is there, the existing one otherwise
Coalesce(incomingValue, existingValue, absent) ==
    IF incomingValue = absent THEN existingValue ELSE incomingValue

\* C18: the persona mergeTwoPersonas returns has the roster persona's id;
\* its name, role, description and avatar are the candidate's when the
\* candidate has one and the roster persona's otherwise, and so is each of
\* the demographics keys age, experience, department and companySize.
C18_MergeCoalescesFields ==
    Merged
    => LET existing == inRoster[1]
           incoming == inBatch[1]
           result == roster[1]
       IN  /\ result.id = existing.id
           /\ result.name = Coalesce(incoming.name, existing.name, <<>>)
           /\ result.role = Coalesce(incoming.role, existing.role, "")
           /\ result.description
                = Coalesce(incoming.description, existing.description, "")
           /\ result.avatar = Coalesce(incoming.avatar, existing.avatar, NoAvatar)
           /\ \A key \in {"age", "experience", "department", "companySize"} :
                 result.demographics[key]
                    = Coalesce(incoming.demographics[key],
                               existing.demographics[key], "")

\* a merge in which the candidate brings a name, an avatar and an age but no
\* role and no department, all of which the roster persona has
C18_Witness ==
    /\ Merged
    /\ inBatch[1].name # <<>> /\ inRoster[1].name # inBatch[1].name
    /\ roster[1].name = inBatch[1].name
    /\ inBatch[1].role = "" /\ roster[1].role = "PM"
    /\ inBatch[1].avatar.has /\ inRoster[1].avatar.has
    /\ roster[1].avatar = inBatch[1].avatar /\ inRoster[1].avatar # inBatch[1].avatar
    /\ inBatch[1].demographics.age = "30s" /\ inRoster[1].demographics.age = "40s"
    /\ roster[1].demographics.age = "30s"
    /\ roster[1].demographics.department = "Ops"

NoDuplicates(seq) == \A i, j \in DOMAIN seq : i # j => seq[i] # seq[j]

IsPrefix(a, b) == Len(a) <= Len(b) /\ \A i \in DOMAIN a : a[i] = b[i]

\* C19: when the goals of every roster persona are duplicate-free, so are
\* the goals of every persona of the returned roster, whatever the candidates
\* carry, and the goals of a roster persona are still there, in their order,
\* at the head of its list.
C19_GoalsDuplicateFree ==
    (Resolved /\ \A i \in DOMAIN inRoster : NoDuplicates(inRoster[i].goals))
    => /\ \A i \in DOMAIN roster : NoDuplicates(roster[i].goals)
       /\ \A i \in DOMAIN inRoster : IsPrefix(inRoster[i].goals, roster[i].goals)

\* candidate k matches no roster persona and no candidate before it (name
\* matching is an equivalence, and a merge leaves the persona with a name of
\* the same class)
IsUnmatched(k) ==
    /\ \A i \in DOMAIN inRoster : ~NameMatches(inRoster[i], inBatch[k])
    /\ \A j \in 1..(k - 1) : ~NameMatches(inBatch[j], inBatch[k])

\* the positions of the unmatched candidates, in candidate order
UnmatchedCandidates ==
    LET S == {k \in DOMAIN inBatch : IsUnmatched(k)}
    IN  [n \in 1..Cardinality(S) |->
            CHOOSE k \in S : Cardinality({j \in S : j <= k}) = n]

\* C20: for a roster with pairwise distinct ids the returned roster is the
\* input roster's ids in their order, followed by one entry per unmatched
\* candidate in candidate order; a roster persona that no candidate matches
\* comes back with every field unchanged, apart from a missing avatar being
\* filled in.
C20_RosterKeptAndExtended ==
    (Resolved /\ DistinctIds(inRoster))
    => /\ Len(roster) = Len(inRoster) + Len(UnmatchedCandidates)
       /\ \A i \in DOMAIN inRoster : roster[i].id = inRoster[i].id
       /\ \A m \in DOMAIN UnmatchedCandidates :
             HoldsDataOf(roster[Len(inRoster) + m], inBatch[UnmatchedCandidates[m]])
       /\ \A i \in DOMAIN inRoster :
             (\A k \in DOMAIN inBatch : ~NameMatches(inRoster[i], inBatch[k]))
             => /\ HasFullAvatar(inRoster[i]) => roster[i] = inRoster[i]
                /\ [roster[i] EXCEPT !.avatar = NoAvatar]
                      = [inRoster[i] EXCEPT !.avatar = NoAvatar]

\* a roster of two personas, neither matched, one of them without avatar,
\* extended by two candidates with different names
C20_Witness ==
    /\ Resolved
    /\ Len(inRoster) = 2
    /\ Len(UnmatchedCandidates) = 2
    /\ inBatch[1].name # inBatch[2].name
    /\ roster[3].name = inBatch[1].name
    /\ roster[4].name = inBatch[2].name
    /\ \E i \in DOMAIN inRoster : ~inRoster[i].avatar.has /\ roster[i].avatar.has
    /\ \E i \in DOMAIN inRoster : roster[i] = inRoster[i]

DistinctColors(personas) ==
    \A i, j \in DOMAIN personas :
        i # j => personas[i].avatar.color # personas[j].avatar.color

\* C6: starting from an empty roster, after any sequence of resolver calls on
\* extracted candidates (initials, no color) and persona deletions, a roster
\* of at most as many personas as the palette has colors holds no two personas
\* with the same avatar color.
C6_RosterColorsUnique ==
    Len(roster) <= PaletteSize => DistinctColors(roster)

----------------------------------------------------------------------------
(* Properties of the extraction *)

Extracted == lastOp = "extract"

InRange(personaIndex, n) ==
    /\ personaIndex.kind = "number"
    /\ personaIndex.value >= 0
    /\ personaIndex.value < n

\* C10: when the response is parsed, a pain point whose personaIndex is absent,
\* null, negative or too large does not make the extraction fail and gets no
\* personaId from the index step (only the single-persona fallback may give it
\* one); a pain point whose index is in range gets the id of the persona at
\* that position.
C10_IndexStepNeverFails ==
    (Extracted /\ llmResponse.kind = "json")
    => /\ extraction.status = "ok"
       /\ Len(extraction.painPoints) = Len(llmResponse.painPoints)
       /\ \A k \in DOMAIN llmResponse.painPoints :
             LET ix == llmResponse.painPoints[k].personaIndex
                 n == Len(llmResponse.personas)
             IN  /\ InRange(ix, n)
                    => extraction.painPoints[k].personaId
                          = extraction.personas[ix.value + 1].id
                 /\ (~InRange(ix, n) /\ n # 1)
                    => extraction.painPoints[k].personaId = ""

----------------------------------------------------------------------------
(* Properties of ensurePersonaColors *)

Colored == lastOp = "colors"

\* C7: for a roster of at most as many personas as the palette has colors,
\* whatever colors the personas hold or lack, every persona returned by
\* ensurePersonaColors has a color and the colors are pairwise distinct.
C7_ColorsDistinctAfterRepair ==
    (Colored /\ Len(inRoster) <= PaletteSize)
    => /\ Len(roster) = Len(inRoster)
       /\ \A i \in DOMAIN roster : roster[i].avatar.color # ""
       /\ DistinctColors(roster)

C7_Witness ==
    /\ Colored
    /\ Len(inRoster) = PaletteSize
    /\ ~AllSameColor(inRoster)
    /\ \E i, j \in DOMAIN inRoster :
          /\ i < j
          /\ inRoster[i].avatar.color = inRoster[j].avatar.color
          /\ inRoster[i].avatar.color # ""
          /\ roster[i].avatar.color = inRoster[i].avatar.color
          /\ roster[j].avatar.color # inRoster[j].avatar.color
    /\ \E i \in DOMAIN inRoster :
          /\ inRoster[i].avatar.color = ""
          /\ roster[i].avatar.color = PERSONA_COLORS[PaletteSize - 1]

----------------------------------------------------------------------------
(* Properties of spreadPriorityMatrix *)

Spreaded == lastOp = "spread"

InScale(v) == LowerBound <= v /\ v <= UpperBound

OneDecimal(v) == v % 100 = 0

InputInScale == \A i \in DOMAIN inItems : InScale(inItems[i].impact) /\ InScale(inItems[i].effort)

\* C8: when every input coordinate lies in [1,5], every returned item has
\* both coordinates in [1,5] and each is a multiple of 0.1, whatever angles
\* and edge offsets are drawn.
C8_CoordinatesInScaleOneDecimal ==
    (Spreaded /\ InputInScale)
    => \A i \in DOMAIN outItems :
          /\ InScale(outItems[i].impact) /\ OneDecimal(outItems[i].impact)
          /\ InScale(outItems[i].effort) /\ OneDecimal(outItems[i].effort)

\* a call that displaced an item of a too-close pair and pulled a coordinate
\* from an edge
C8_Witness ==
    /\ Spreaded
    /\ InputInScale
    /\ \E i, j \in DOMAIN inItems :
          /\ i < j
          /\ inItems[i].priority = inItems[j].priority
          /\ inItems[i].priority = "immediate"
          /\ TooClose(inItems[i], inItems[j])
          /\ DistanceSquared(outItems[i], outItems[j])
                > DistanceSquared(inItems[i], inItems[j])
    /\ \E i \in DOMAIN inItems :
          /\ inItems[i].impact < LowerBound + edgeBuffer
          /\ outItems[i].impact >= LowerBound + edgeBuffer

\* C9: the returned array has as many items as the argument, in the same
\* order, each with the priority, title and rationale it came with; the
\* empty array is returned as the empty array.
C9_OnlyCoordinatesChange ==
    Spreaded
    => /\ Len(outItems) = Len(inItems)
       /\ \A i \in DOMAIN inItems :
             /\ outItems[i].priority = inItems[i].priority
             /\ outItems[i].title = inItems[i].title
             /\ outItems[i].rationale = inItems[i].rationale

\* a call on items of several labels, one of them none of the four, that
\* moved an item
C9_Witness ==
    /\ Spreaded
    /\ Len(inItems) = MaxItems
    /\ \E i, j \in DOMAIN inItems :
          /\ i < j
          /\ inItems[i].priority = "urgent"
          /\ inItems[j].priority = "immediate"
    /\ \E i \in DOMAIN inItems : outItems[i].impact # inItems[i].impact

\* C15: after the call the item objects the caller passed still hold the
\* coordinates they had before it; the adjusted coordinates are in the
\* returned array only.
C15_ArgumentKeepsCoordinates ==
    Spreaded
    => \A i \in DOMAIN inItems :
          /\ argItems[i].impact = inItems[i].impact
          /\ argItems[i].effort = inItems[i].effort

----------------------------------------------------------------------------
(* Properties of the page *)

Uploaded == lastOp = "upload"

\* the pain point of the page with the given id, as a set
OnPage(id) == {pp \in AllPainPoints : pp.id = id}

\* C11: when the upload of an answer with exactly one persona has finished,
\* every pain point of the answer, with or without a personaIndex that names
\* the persona, is on the page with the id of the roster persona that holds
\* the data of that persona: the matched persona's id if it was merged, its
\* own or a drawn id if it was appended.
C11_SinglePersonaBatchAttributed ==
    (Uploaded /\ Len(inBatch) = 1)
    => \A k \in DOMAIN extraction.painPoints :
          /\ OnPage(extraction.painPoints[k].id) # {}
          /\ \A pp \in OnPage(extraction.painPoints[k].id) :
                \E i \in DOMAIN roster :
                    /\ roster[i].id = pp.personaId
                    /\ HoldsDataOf(roster[i], inBatch[1])
                    /\ IF \E j \in DOMAIN inRoster : NameMatches(inRoster[j], inBatch[1])
                       THEN pp.personaId \in IdsOf(inRoster)
                       ELSE pp.personaId \notin IdsOf(inRoster)

\* an answer with one persona whose second pain point had no personaIndex,
\* merged into a persona of the roster under another id than its own
C11_Witness ==
    /\ Uploaded
    /\ Len(inBatch) = 1
    /\ \E k \in DOMAIN llmResponse.painPoints :
          /\ llmResponse.painPoints[k].personaIndex = AbsentIndex
          /\ \E pp \in OnPage(extraction.painPoints[k].id) :
                /\ pp.personaId \in IdsOf(inRoster)
                /\ pp.personaId # inBatch[1].id

\* C12: a pain point of an answer with two or more personas whose
\* personaIndex named none of them has no personaId when the upload has
\* finished, and has none in any later state of the page, whatever uploads,
\* merges, deletions and stage moves have happened since.
C12_UnattributedStaysUnattributed ==
    \A pp \in AllPainPoints : pp.id \in unattributed => pp.personaId = ""

\* the upload of an answer with two personas has finished, one of its pain
\* points had no personaIndex, and a pain point left unattributed by an
\* earlier upload is still on the page
C12_Witness ==
    /\ Uploaded
    /\ Len(inBatch) >= 2
    /\ \E k \in DOMAIN llmResponse.painPoints :
          /\ llmResponse.painPoints[k].personaIndex = AbsentIndex
          /\ extraction.painPoints[k].id \in unattributed
          /\ OnPage(extraction.painPoints[k].id) # {}
    /\ \E pp \in AllPainPoints :
          /\ pp.id \in unattributed
          /\ pp.id \notin {extraction.painPoints[k].id : k \in DOMAIN extraction.painPoints}

\* C14: in every state of the page, every pain point whose personaId is set
\* refers to a persona of the roster.
C14_PersonaIdsInRoster ==
    \A pp \in AllPainPoints : pp.personaId # "" => pp.personaId \in IdsOf(roster)

\* the page is loaded and rendered
Settled == isLoaded /\ lastOp # "mount"

PageState ==
    [ painPoints |-> painPointsByStage, personas |-> roster, analysis |-> analysis,
      lastAnalysisHash |-> lastAnalysisHash ]

\* the storage holds the pain points, the personas and the analysis of the
\* page, and loading it gives the state of the page
StoredIsPageState ==
    Settled
    => /\ localStorage = [ painPoints |-> <<painPointsByStage>>,
                           personas   |-> <<roster>>,
                           analysis   |-> analysis,
                           analysisHash |-> lastAnalysisHash ]
       /\ \E uuidStream \in UuidStreams : LoadedState(localStorage, uuidStream) = PageState

\* C16: the load on mount restores what the storage holds; before the load
\* has taken place nothing is written to the storage; and once the page is
\* loaded, after every step the storage holds the pain points, the personas
\* and the analysis of the page, so that loading it again gives the state the
\* page is in.
C16_StorageFollowsState ==
    [][ /\ ~isLoaded => localStorage' = localStorage
        /\ (~isLoaded /\ isLoaded')
           => \E uuidStream \in UuidStreams :
                 LoadedState(localStorage, uuidStream) = PageState'
        /\ StoredIsPageState' ]_vars

\* candidates j and k of the batch match each other, j comes first, and
\* neither matches a persona of the input roster or a candidate before j
MatchingNewPair(j, k) ==
    /\ j < k
    /\ IsUnmatched(j)
    /\ NameMatches(inBatch[j], inBatch[k])

\* no candidate after c with another name brings the id of candidate c again
\* (the mapping keeps one entry per id, the last one written)
IdNotReusedAfter(c) ==
    \A m \in (c + 1)..Len(inBatch) :
        inBatch[m].id = inBatch[c].id => NameMatches(inBatch[m], inBatch[c])

RECURSIVE CursorTrailFrom(_, _, _, _)
CursorTrailFrom(acc, trail, personas, allSameColor) ==
    IF Len(trail) = Len(personas) THEN trail
    ELSE LET next == ColorStep(acc, personas[Len(trail) + 1], allSameColor)
         IN  CursorTrailFrom(next, Append(trail, next.colorIndex), personas, allSameColor)

CursorTrail(personas) ==
    CursorTrailFrom([colorIndex |-> 0, usedColors |-> {}, result |-> <<>>],
                    <<>>, personas, AllSameColor(personas))

CursorBefore(trail, i) == IF i = 1 THEN 0 ELSE trail[i - 1]

\* the times the while loop advances the cursor for persona i: a persona that
\* keeps its color leaves the cursor alone, any other one advances it once
\* more after the loop
SearchAdvances(trail, i) ==
    LET d == trail[i] - CursorBefore(trail, i)
    IN  IF d = 0 THEN 0 ELSE d - 1

RECURSIVE SearchAdvancesUpTo(_, _)
SearchAdvancesUpTo(trail, i) ==
    IF i = 0 THEN 0
    ELSE SearchAdvancesUpTo(trail, i - 1) + SearchAdvances(trail, i)

\* C22 as stated: over the whole roster the while loop advances the palette
\* cursor at most 2 x K times.
C22_AtMostTwiceThePaletteInTotal ==
    Colored
    => LET trail == CursorTrail(inRoster)
       IN  SearchAdvancesUpTo(trail, Len(trail)) <= 2 * PaletteSize

\* C22: ensurePersonaColors returns a colored persona for every persona of
\* the roster, whatever its size and colors; the search for one persona
\* advances the cursor at most 2 x K times; once the cursor has reached 2 x K
\* every further search advances it once and then takes a color that an
\* earlier persona of the result holds; over the whole roster the searches
\* advance the cursor at most 2 x K times plus once per persona.
C22_SearchIsBounded ==
    Colored
    => LET trail == CursorTrail(inRoster)
       IN  /\ Len(roster) = Len(inRoster)
           /\ \A i \in DOMAIN roster :
                 roster[i].avatar.color \in Range(PERSONA_COLORS)
           /\ \A i \in DOMAIN inRoster :
                 /\ SearchAdvances(trail, i) <= 2 * PaletteSize
                 /\ CursorBefore(trail, i) >= 2 * PaletteSize
                    => /\ SearchAdvances(trail, i) <= 1
                       /\ \E h \in 1..(i - 1) :
                             roster[h].avatar.color = roster[i].avatar.color
           /\ SearchAdvancesUpTo(trail, Len(trail))
                 <= 2 * PaletteSize + Len(inRoster)

\* a roster of 22 personas without avatar: ten get the ten palette colors,
\* the eleventh search runs the cursor from 10 to 20, and each of the eleven
\* remaining searches advances it once more
C22_Witness ==
    /\ Colored
    /\ Len(inRoster) = 2 * PaletteSize + 2
    /\ \A i \in DOMAIN inRoster : inRoster[i].avatar.color = ""
    /\ SearchAdvances(CursorTrail(inRoster), PaletteSize + 1) = PaletteSize
    /\ SearchAdvancesUpTo(CursorTrail(inRoster), Len(inRoster)) = 2 * PaletteSize + 1
    /\ roster[PaletteSize + 1].avatar.color = roster[1].avatar.color
    /\ roster[Len(roster)].avatar.color = roster[3].avatar.color

SameCoordinates(item, other) ==
    item.impact = other.impact /\ item.effort = other.effort

\* item j is compared with no item, or is at distance 0.3 or more from each
\* earlier item of its label: an earlier item is where the loop over the
\* groups leaves it when the pair is compared, for the pairs it is second in
\* come before the pairs it is first in
ClearOfEarlierItems(j) ==
    \A i \in 1..(j - 1) :
        inItems[i].priority = inItems[j].priority
        => ~TooClose(afterGroups[i], inItems[j])

\* C23: the loop over the groups moves only the second item of a pair that
\* is too close: the first item of each label, and every item that is at
\* distance 0.3 or more from each earlier item of its label when compared
\* with it, leaves the loop with its input coordinates, and is returned with
\* them up to the edge correction and the rounding; items of other labels
\* have no part in it.
C23_OnlyLaterItemOfClosePairMoves ==
    Spreaded
    => \A j \in DOMAIN inItems :
          ClearOfEarlierItems(j)
          => /\ afterGroups[j] = inItems[j]
             /\ outItems[j] \in EdgeStep(inItems[j])

\* three items of one label: the second is too close to the first and is
\* moved towards the third, which was 0.3 or more from both on input and is
\* moved in its turn; the first stays
C23_Witness ==
    /\ Spreaded
    /\ Len(inItems) = MaxItems
    /\ \E i, j, k \in DOMAIN inItems :
          /\ i < j /\ j < k
          /\ inItems[i].priority = inItems[j].priority
          /\ inItems[j].priority = inItems[k].priority
          /\ TooClose(inItems[i], inItems[j])
          /\ ~TooClose(inItems[i], inItems[k])
          /\ ~TooClose(inItems[j], inItems[k])
          /\ SameCoordinates(afterGroups[i], inItems[i])
          /\ ~SameCoordinates(afterGroups[j], inItems[j])
          /\ ~SameCoordinates(afterGroups[k], inItems[k])

\* the groups that hold item j
GroupsOfItem(j) ==
    {g \in DOMAIN GroupLabels : j \in Range(GroupOf(inItems, GroupLabels[g]))}

\* both coordinates of the item are so far inside the scale that no clamp
\* can undo an adjustment
AwayFromBounds(item) ==
    LET margin == offset * Len(inItems)
    IN  /\ LowerBound + margin <= item.impact /\ item.impact <= UpperBound - margin
        /\ LowerBound + margin <= item.effort /\ item.effort <= UpperBound - margin

\* C24: the items are partitioned by their label, whatever the label is:
\* every item is in exactly one group, and an item that is closer than 0.3
\* to an earlier item of its label when compared with it leaves the loop
\* over the groups with other coordinates than it came with.
C24_EveryLabelFormsAGroup ==
    Spreaded
    => \A j \in DOMAIN inItems :
          /\ Cardinality(GroupsOfItem(j)) = 1
          /\ ( /\ AwayFromBounds(inItems[j])
               /\ \E i \in 1..(j - 1) :
                     /\ inItems[i].priority = inItems[j].priority
                     /\ TooClose(afterGroups[i], inItems[j]) )
             => ~SameCoordinates(afterGroups[j], inItems[j])

Middle == (LowerBound + UpperBound) \div 2

\* coordinate v of processed after the loop over the groups is returned as w
EdgeCorrectedAs(v, w) ==
    /\ LowerBound < w /\ w < UpperBound
    /\ v < LowerBound + edgeBuffer
       => /\ RoundToTenth(LowerBound + edgeBuffer) <= w
          /\ w <= Middle
    /\ v > UpperBound - edgeBuffer
       => /\ w <= RoundToTenth(UpperBound - edgeBuffer)
          /\ Middle <= w
    /\ (LowerBound + edgeBuffer <= v /\ v <= UpperBound - edgeBuffer)
       => w = RoundToTenth(v)

ClosePairOfOwnGroup(i, j) ==
    /\ i < j
    /\ inItems[i].priority \in Range(GroupLabels)
    /\ \A k \in DOMAIN inItems :
          inItems[k].priority = inItems[i].priority <=> k \in {i, j}
    /\ TooClose(inItems[i], inItems[j])

\* C26: two items of one label that are closer than 0.3 on input, with no
\* other item of that label, are returned further apart than they came,
\* whatever angle is drawn, and with coordinates in [1,5].
C26_ClosePairMovesApart ==
    (Spreaded /\ InputInScale)
    => \A i, j \in DOMAIN inItems :
          ClosePairOfOwnGroup(i, j)
          => /\ DistanceSquared(outItems[i], outItems[j])
                   > DistanceSquared(inItems[i], inItems[j])
             /\ InScale(outItems[i].impact) /\ InScale(outItems[i].effort)
             /\ InScale(outItems[j].impact) /\ InScale(outItems[j].effort)

\* C27: an upload that completes with extracted personas applies them to the
\* roster as it is when the upload completes: the roster after the
\* completion is the resolver's result for the roster before it and the
\* batch, so that what happened to the roster while the upload was in flight
\* is kept.
C27_UploadMergesIntoCurrentRoster ==
    [][ (lastOp' = "upload" /\ inBatch' # <<>>)
        => \E uuidStream \in UuidStreams :
              roster' = ensureUniquePersonaIds(
                            mergePersonasWithMapping(roster, inBatch', uuidStream).personas,
                            uuidStream) ]_vars

\* ids, stages, severities and titles of a set of pain points
KeysOf(painPoints) ==
    {<<pp.id, pp.stage, pp.severity, pp.title>> : pp \in painPoints}

\* C28: whenever an analyze request that is not forced would show the stored
\* analysis without a new request, the pain points of the page have the ids,
\* stages, severities and titles of the pain points that analysis was
\* computed from; and right after a pain point has been added, deleted,
\* moved or uploaded such a request starts a new analysis.  An analysis that
\* arrives after the pain points have changed is stored with the hash of the
\* pain points it was requested for, so that the first part covers it.
C28_StoredAnalysisMatchesPainPoints ==
    /\ (Settled /\ ~needsNewAnalysis)
       => KeysOf(analysis[1].painPoints) = KeysOf(AllPainPoints)
    /\ lastOp \in {"addPainPoint", "deletePainPoint", "drop", "upload"}
       => needsNewAnalysis

\* an analysis has arrived for pain points that have changed while the
\* request was in flight: it is stored with its hash, and the next request
\* starts a new analysis
C28_Witness ==
    /\ lastOp = "analysis"
    /\ analysis # Null
    /\ lastAnalysisHash # Null
    /\ KeysOf(analysis[1].painPoints) # KeysOf(AllPainPoints)
    /\ AllPainPoints # {}
    /\ needsNewAnalysis

\* the sequence without its i-th element
WithoutIndex(seq, i) ==
    [k \in 1..(Len(seq) - 1) |-> IF k < i THEN seq[k] ELSE seq[k + 1]]

\* C29: deleting a persona removes exactly that persona from the roster and
\* from the selection of the persona filter, and clears personaId on exactly
\* the pain points that referenced it; the number of pain points of every
\* stage, all their other fields and every other persona stay as they were.
C29_DeletePersonaTouchesOnlyThatPersona ==
    [][lastOp' = "deletePersona" =>
          \E i \in DOMAIN roster :
             LET personaId == roster[i].id
             IN  /\ roster' = WithoutIndex(roster, i)
                 /\ personaId \notin IdsOf(roster')
                 /\ personaId \notin Range(selectedPersonaIds')
                 /\ selectedPersonaIds' =
                        SelectSeq(selectedPersonaIds, LAMBDA id : id # personaId)
                 /\ DOMAIN painPointsByStage' = DOMAIN painPointsByStage
                 /\ \A s \in DOMAIN painPointsByStage :
                       /\ Len(painPointsByStage'[s]) = Len(painPointsByStage[s])
                       /\ \A k \in DOMAIN painPointsByStage[s] :
                             LET pp == painPointsByStage[s][k]
                             IN  painPointsByStage'[s][k] =
                                     IF pp.personaId = personaId
                                     THEN [pp EXCEPT !.personaId = ""]
                                     ELSE pp]_vars

\* a persona has been deleted: a pain point without a persona, a pain point
\* of a persona that is still in the roster, and a persona still selected
C29_Witness ==
    /\ lastOp = "deletePersona"
    /\ \E pp \in AllPainPoints : pp.personaId = ""
    /\ \E pp \in AllPainPoints : pp.personaId \in IdsOf(roster)
    /\ selectedPersonaIds # <<>>
    /\ Range(selectedPersonaIds) \subseteq IdsOf(roster)

\* pain points of the page that reference the persona id
AttributedTo(byStage, personaId) ==
    LET F[s \in 0..Len(stages)] ==
            IF s = 0 THEN 0
            ELSE F[s - 1] + Len(SelectSeq(byStage[stages[s]],
                                          LAMBDA pp : pp.personaId = personaId))
    IN  F[Len(stages)]

\* pain points of the page
TotalPainPoints(byStage) ==
    LET F[s \in 0..Len(stages)] ==
            IF s = 0 THEN 0 ELSE F[s - 1] + Len(byStage[stages[s]])
    IN  F[Len(stages)]

\* the roster after the merge of S into T: T's id is there, S's is not, and
\* it is one persona smaller
MergedRosterShape(T, S) ==
    /\ T.id \in IdsOf(roster')
    /\ S.id \notin IdsOf(roster')
    /\ Len(roster') = Len(roster) - 1

\* the pain points after the merge of S into T
MergedPainPoints(T, S) ==
    /\ AttributedTo(painPointsByStage', S.id) = 0
    /\ AttributedTo(painPointsByStage', T.id) =
           AttributedTo(painPointsByStage, T.id) + AttributedTo(painPointsByStage, S.id)
    /\ TotalPainPoints(painPointsByStage') = TotalPainPoints(painPointsByStage)

\* the merged persona: T's non-empty fields first, goals the union in order
MergedFields(T, S) ==
    \A k \in DOMAIN roster' :
       roster'[k].id = T.id =>
          /\ roster'[k].name = (IF T.name # <<>> THEN T.name ELSE S.name)
          /\ roster'[k].role = (IF T.role # "" THEN T.role ELSE S.role)
          /\ roster'[k].description =
                 (IF T.description # "" THEN T.description ELSE S.description)
          /\ Range(roster'[k].goals) = Range(T.goals) \cup Range(S.goals)
          /\ \A a, b \in DOMAIN roster'[k].goals :
                a # b => roster'[k].goals[a] # roster'[k].goals[b]

\* C30: after persona S has been merged into the merge target T the roster
\* holds a persona with T's id and none with S's id and is one persona
\* smaller; the pain points of S are those of T, whose number is the sum of
\* both, and the total is unchanged; the merged persona takes T's non-empty
\* fields first and its goals are the union without duplicates.
C30_MergeIntoTarget ==
    [][lastOp' = "mergePersonas" =>
          \E i \in DOMAIN roster :
             /\ roster[i].id # mergeTarget[1].id
             /\ MergedRosterShape(mergeTarget[1], roster[i])
             /\ MergedPainPoints(mergeTarget[1], roster[i])
             /\ MergedFields(mergeTarget[1], roster[i])]_vars

====
